---- MODULE Spec2Model ----
(***************************************************************************)
(* Moonfire NVR recording storage engine: the per-stream Writer, the       *)
(* Syncer worker with its planned-flush heap, retention rotation and       *)
(* garbage collection (db/writer.rs), over the metadata store interface    *)
(* and the Clocks abstraction (base/clock.rs).                             *)
(*                                                                         *)
(* Conventions.  Time (monotonic clock, local times, pts) is counted in    *)
(* 90 kHz ticks.  A 64-bit pts is a pair [hi, lo] meaning hi * 2^30 + lo,  *)
(* so that the `as i32` conversions of writer.rs are computed on the low   *)
(* 32 bits exactly.  One stream (id 1) in one sample file directory.       *)
(***************************************************************************)
EXTENDS Integers, Sequences, FiniteSets, TLC

VARIABLES
    w,       \* the Writer (writer.rs:599) with its InnerWriter when Open
    db,      \* the LockedDatabase state the writer and syncer use
    chan,    \* the mpsc command channel of SyncerChannel (writer.rs:102)
    syncer,  \* the Syncer (writer.rs:111) and the position of its thread
    disk,    \* the sample file directory: files, and what has been fsynced
    now,     \* Clocks::monotonic, in ticks
    hist,    \* observable outputs so far: commands sent, live segments, calls
    budget,  \* how many injected faults / external events are still allowed
    retry,   \* a call of clock::retry_forever made on its own (clock.rs:62)
    iter,    \* a SampleIndexIterator over the open recording's index, if any
    seg,     \* a recording::Segment of the open recording, if one was created
    thr      \* the threads at the database lock: who holds it, where each is

vars == <<w, db, chan, syncer, disk, now, hist, budget, retry, iter, seg, thr>>

-----------------------------------------------------------------------------
(* Bounds of the model. *)

MaxRecordings == 2   \* recordings the Writer may open
MaxWrites == 2       \* calls of Writer::write
MaxFaults == 1       \* injected transient I/O errors and failed flushes
MaxOtherFlushes == 1 \* database flushes by parties other than the Syncer
MaxFlushCalls == 1   \* calls of SyncerChannel::flush

-----------------------------------------------------------------------------
(* Program constants. *)

TIME_UNITS_PER_SEC == 90000
MAX_RECORDING_DURATION == 5 * 60 * TIME_UNITS_PER_SEC
I32_MAX == 2147483647
TimeMax == I32_MAX   \* stands for i64::max_value(): above every time here
Limb == 1073741824
RetrySleep == 1 * TIME_UNITS_PER_SEC
FlushRetry == 60 * TIME_UNITS_PER_SEC
TrailingZero == 1
Growing == 2

\* Option<T>.
None == [some |-> FALSE]
Some(x) == [some |-> TRUE, v |-> x]

Min(a, b) == IF a < b THEN a ELSE b
Max(a, b) == IF a > b THEN a ELSE b

-----------------------------------------------------------------------------
(* 64-bit pts values and the conversion of their difference to i32. *)

I64(h, l) == [hi |-> h, lo |-> l]

\* a <= b on the 64-bit values.
I64Le(a, b) == a.hi < b.hi \/ (a.hi = b.hi /\ a.lo <= b.lo)

\* (a - b) as i32: the low 32 bits of the 64-bit difference, read as signed.
SubAsI32(a, b) ==
    LET dl == a.lo - b.lo
        q == (a.hi - b.hi) % 4
    IN  CASE q = 0 -> dl
          [] q = 1 -> Limb + dl
          [] q = 2 -> IF dl >= 0 THEN (dl - Limb) - Limb ELSE Limb + (Limb + dl)
          [] q = 3 -> dl - Limb

-----------------------------------------------------------------------------
(* ClockAdjuster. *)

Disabled == [every_minus_1 |-> I32_MAX, ndir |-> 0, cur |-> 0]

\* The rate is capped at 1000 ppm.
ClockAdjuster_new_Cap1000ppm(local_time_delta) ==
    IF ~local_time_delta.some THEN Disabled
    ELSE LET d == local_time_delta.v
         IN  IF d <= -2700 THEN [every_minus_1 |-> 999, ndir |-> 1, cur |-> 0]
             ELSE IF d >= 2700 THEN [every_minus_1 |-> 999, ndir |-> -1, cur |-> 0]
             ELSE IF d < -60
                  THEN [every_minus_1 |-> ((60 * 90000) \div (-d)) - 1, ndir |-> 1, cur |-> 0]
             ELSE IF d > 60
                  THEN [every_minus_1 |-> ((60 * 90000) \div d) - 1, ndir |-> -1, cur |-> 0]
             ELSE Disabled

\* ClockAdjuster::new; local_time_delta is an Option<i64>.
ClockAdjuster_new(local_time_delta) ==
    IF ~local_time_delta.some THEN Disabled
    ELSE LET d == local_time_delta.v
         IN  IF d <= -2700 THEN [every_minus_1 |-> 1999, ndir |-> 1, cur |-> 0]
             ELSE IF d >= 2700 THEN [every_minus_1 |-> 1999, ndir |-> -1, cur |-> 0]
             ELSE IF d < -60
                  THEN [every_minus_1 |-> ((60 * 90000) \div (-d)) - 1, ndir |-> 1, cur |-> 0]
             ELSE IF d > 60
                  THEN [every_minus_1 |-> ((60 * 90000) \div d) - 1, ndir |-> -1, cur |-> 0]
             ELSE Disabled

\* The loop's body runs at most once.
adjust_Once(a, val) ==
    LET cur == a.cur + val
    IN  IF cur > a.every_minus_1 /\ val > a.ndir
        THEN [adjuster |-> [a EXCEPT !.cur = (cur - a.every_minus_1) - 1],
              val |-> val - a.ndir]
        ELSE [adjuster |-> [a EXCEPT !.cur = cur], val |-> val]

\* ClockAdjuster::adjust: the adjuster afterwards and the value returned.
\* After `cur += val`, the loop `while cur > every_minus_1 && val > ndir`
\* subtracts every_minus_1 + 1 from cur and ndir from val; n is the number
\* of times its body runs: the loop condition holds after n - 1 runs and
\* fails after n.
adjust(a, val) ==
    LET cur == a.cur + val
        Continues(k) == /\ (cur - k * a.every_minus_1) - k > a.every_minus_1
                        /\ val - k * a.ndir > a.ndir
        n == IF ~Continues(0) THEN 0
             ELSE CHOOSE k \in 1..(cur \div (a.every_minus_1 + 1)) :
                      Continues(k - 1) /\ ~Continues(k)
    IN  [adjuster |-> [a EXCEPT !.cur = (cur - n * a.every_minus_1) - n],
         val |-> val - n * a.ndir]

-----------------------------------------------------------------------------
(* 32-bit arithmetic.  An i32 is an integer of I32_MIN..I32_MAX; a u32 is   *)
(* a pair [hi, lo] meaning hi * 2^30 + lo with hi in 0..3.                 *)

I32_MIN == -I32_MAX - 1

\* a + b on i32 as two's complement computes it: [v, carry], where the
\* exact sum is v + carry * 2^32.  A carry other than 0 is an overflow: a
\* build with overflow checks panics there, one without goes on with v.
AddI32(a, b) ==
    IF a > 0 /\ b > I32_MAX - a
    THEN [v |-> (a - I32_MAX - 1) + (b - I32_MAX - 1), carry |-> 1]
    ELSE IF a < 0 /\ b < I32_MIN - a
    THEN [v |-> (a + I32_MAX + 1) + (b + I32_MAX + 1), carry |-> -1]
    ELSE [v |-> a + b, carry |-> 0]

\* a - b on i32, likewise.
SubI32(a, b) ==
    IF b # I32_MIN THEN AddI32(a, -b)
    ELSE IF a < 0 THEN [v |-> (a + I32_MAX) + 1, carry |-> 0]
    ELSE [v |-> (a - I32_MAX) - 1, carry |-> 1]

U32(hi, lo) == [hi |-> hi, lo |-> lo]

HalfLimb == Limb \div 2

\* coding::zigzag32: (n << 1) ^ (n >> 31), an i32 to a u32.
zigzag32(n) ==
    IF n >= 0 THEN U32(n \div HalfLimb, 2 * (n % HalfLimb))
    ELSE LET m == -(n + 1) IN U32(m \div HalfLimb, 2 * (m % HalfLimb) + 1)

\* coding::unzigzag32: (u >> 1) ^ -(u & 1), a u32 to an i32.
unzigzag32(u) ==
    IF u.lo % 2 = 0 THEN u.hi * HalfLimb + u.lo \div 2
    ELSE -(u.hi * HalfLimb + (u.lo - 1) \div 2) - 1

\* (u << 1) on u32, the bit not set.
Shl1Or_BitDropped(u, bit) ==
    U32((2 * u.hi + u.lo \div HalfLimb) % 4, 2 * (u.lo % HalfLimb))

\* (u << 1) | bit on u32: the top bit of u is lost.
Shl1Or(u, bit) == U32((2 * u.hi + u.lo \div HalfLimb) % 4, 2 * (u.lo % HalfLimb) + bit)

\* u >> 1 on u32.
Shr1(u) == U32(u.hi \div 2, (u.hi % 2) * HalfLimb + u.lo \div 2)

\* The five groups of 7 bits of a u32, lowest first.
Groups(u) ==
    <<u.lo % 128, (u.lo \div 128) % 128, (u.lo \div 16384) % 128,
      (u.lo \div 2097152) % 128, u.lo \div 268435456 + 4 * u.hi>>

\* coding::append_varint32: the groups up to the highest one that is not
\* zero, each but the last with the continuation bit (128).
append_varint32(u, data) ==
    LET g == Groups(u)
        used == {k \in 1..5 : g[k] # 0} \cup {1}
        n == CHOOSE k \in used : \A j \in used : j <= k
    IN  data \o [k \in 1..n |-> g[k] + (IF k < n THEN 128 ELSE 0)]

\* coding::decode_varint32 at offset i (from 0) of data: [ok, v, i], with
\* the u32 read and the offset after it; an error when the data ends in a
\* byte with the continuation bit or the fifth byte has it.
decode_varint32(data, i) ==
    LET ends == {k \in 1..Min(5, Len(data) - i) :
                    /\ data[i + k] < 128
                    /\ \A j \in 1..(k - 1) : data[i + j] >= 128}
        Read(n) ==
            LET g == [k \in 1..5 |-> IF k <= n THEN data[i + k] % 128 ELSE 0]
            IN  [ok |-> TRUE,
                 v |-> U32((g[5] \div 4) % 4,
                           g[1] + 128 * g[2] + 16384 * g[3] + 2097152 * g[4]
                           + 268435456 * (g[5] % 4)),
                 i |-> i + n]
    IN  IF ends = {} THEN [ok |-> FALSE, v |-> U32(0, 0), i |-> i]
        ELSE Read(CHOOSE k \in ends : TRUE)

-----------------------------------------------------------------------------
(* RecordingToInsert, SampleIndexEncoder and SampleIndexIterator.          *)
(* video_index is the sequence of bytes of the sample index.               *)

RecordingToInsert(run_offset, start) ==
    [run_offset |-> run_offset, start |-> start, flags |-> Growing,
     duration_90k |-> 0, sample_file_bytes |-> 0, video_samples |-> 0,
     video_sync_samples |-> 0, local_time_delta |-> 0, sample_file_sha1 |-> <<>>,
     video_index |-> <<>>]

SampleIndexEncoder_new ==
    [prev_duration_90k |-> 0, prev_bytes_key |-> 0, prev_bytes_nonkey |-> 0]

\* SampleIndexEncoder::add_sample: [ok, overflow, e, r] afterwards.
\* prev_duration_90k is assigned before the duration check.  overflow says
\* that an i32 operation overflowed: a build with overflow checks panics
\* instead of returning.
Encoder_add_sample(e, r, duration_90k, bytes, is_key) ==
    LET duration_delta == SubI32(duration_90k, e.prev_duration_90k)
        e1 == [e EXCEPT !.prev_duration_90k = duration_90k]
        new_duration_90k == AddI32(r.duration_90k, duration_90k)
        sample_file_bytes == AddI32(r.sample_file_bytes, bytes)
        bytes_delta == SubI32(bytes, IF is_key THEN e.prev_bytes_key
                                               ELSE e.prev_bytes_nonkey)
    IN  IF new_duration_90k.v > MAX_RECORDING_DURATION
        THEN [ok |-> FALSE,
              overflow |-> duration_delta.carry # 0 \/ new_duration_90k.carry # 0,
              e |-> e1, r |-> r]
        ELSE [ok |-> TRUE,
              overflow |-> \/ duration_delta.carry # 0 \/ new_duration_90k.carry # 0
                           \/ sample_file_bytes.carry # 0 \/ bytes_delta.carry # 0,
              e |-> IF is_key THEN [e1 EXCEPT !.prev_bytes_key = bytes]
                              ELSE [e1 EXCEPT !.prev_bytes_nonkey = bytes],
              r |-> [r EXCEPT !.duration_90k = new_duration_90k.v,
                              !.sample_file_bytes = sample_file_bytes.v,
                              !.video_samples = @ + 1,
                              !.video_sync_samples = @ + (IF is_key THEN 1 ELSE 0),
                              !.video_index =
                                  append_varint32(zigzag32(bytes_delta.v),
                                      append_varint32(
                                          Shl1Or(zigzag32(duration_delta.v),
                                                 IF is_key THEN 1 ELSE 0), @))]]

\* SampleIndexIterator::new; i and is_key are the two parts of i_and_is_key.
SampleIndexIterator_new ==
    [i |-> 0, is_key |-> FALSE, pos |-> 0, start_90k |-> 0, duration_90k |-> 0,
     bytes |-> 0, bytes_other |-> 0]

\* SampleIndexIterator::next(data): [res, overflow, it], res being "true",
\* "false" or the error.
SampleIndexIterator_next(it, data) ==
    LET pos == AddI32(it.pos, it.bytes)
        start_90k == AddI32(it.start_90k, it.duration_90k)
        it1 == [it EXCEPT !.pos = pos.v, !.start_90k = start_90k.v]
        v1 == decode_varint32(data, it.i)
        v2 == decode_varint32(data, v1.i)
        duration_90k == AddI32(it.duration_90k, unzigzag32(Shr1(v1.v)))
        it2 == [it1 EXCEPT !.duration_90k = duration_90k.v]
        prev_bytes_key == IF it.is_key THEN it.bytes ELSE it.bytes_other
        prev_bytes_nonkey == IF it.is_key THEN it.bytes_other ELSE it.bytes
        is_key == v1.v.lo % 2 = 1
        bytes == AddI32(IF is_key THEN prev_bytes_key ELSE prev_bytes_nonkey,
                        unzigzag32(v2.v))
        it3 == [it2 EXCEPT !.i = v2.i, !.is_key = is_key, !.bytes = bytes.v,
                           !.bytes_other = IF is_key THEN prev_bytes_nonkey
                                                     ELSE prev_bytes_key]
        early == pos.carry # 0 \/ start_90k.carry # 0
    IN  IF it.i = Len(data) THEN [res |-> "false", overflow |-> early, it |-> it1]
        ELSE IF ~v1.ok THEN [res |-> "bad varint 1", overflow |-> early, it |-> it1]
        ELSE IF ~v2.ok THEN [res |-> "bad varint 2", overflow |-> early, it |-> it1]
        ELSE IF duration_90k.v < 0
        THEN [res |-> "negative duration", overflow |-> early \/ duration_90k.carry # 0,
              it |-> it2]
        ELSE IF duration_90k.v = 0 /\ Len(data) > v2.i
        THEN [res |-> "zero duration only allowed at end",
              overflow |-> early \/ duration_90k.carry # 0, it |-> it2]
        ELSE IF bytes.v <= 0
        THEN [res |-> "non-positive bytes",
              overflow |-> early \/ duration_90k.carry # 0 \/ bytes.carry # 0,
              it |-> it3]
        ELSE [res |-> "true",
              overflow |-> early \/ duration_90k.carry # 0 \/ bytes.carry # 0,
              it |-> it3]

\* SampleIndexIterator::uninitialized: i_and_is_key == 0.
uninitialized(it) == it.i = 0 /\ ~it.is_key

U16 == 65536

\* Any frame at or before the desired start, key or not.
candidate_AnyFrame(it, start) == it.start_90k <= start

\* Segment::new: it is a new start candidate.
candidate(it, start) == it.start_90k <= start /\ it.is_key

\* The loop stops at the end time although no frame was counted.
stop_NoFrame(it, end_90k, frames) == it.start_90k >= end_90k

\* Segment::new: the loop stops at a frame with this start time.
stop(it, end_90k, frames) == it.start_90k >= end_90k /\ frames > 0

\* The desired end also when it is the end of the recording.
end_90k_Unclamped(recording, end) == end

\* Segment::new: the start time to stop at; going until the end of the
\* recording takes in a trailing frame of zero duration.
end_90k(recording, end) == IF end = recording.duration_90k THEN I32_MAX ELSE end

\* Segment::new's loop over the index from iterator it, for the desired
\* start and the end to stop at; s is [begin, frames, key_frames] so far.
\* [ok, it, s], or [ok, err] when next fails.
RECURSIVE Segment_new_loop(_, _, _, _, _)
Segment_new_loop(data, start, end, it, s) ==
    LET Counted(s1) ==
            IF stop(it, end, s1.frames)
            THEN [ok |-> TRUE, it |-> it, s |-> s1]
            ELSE LET Went(s2, x) ==
                         IF x.res = "false" THEN [ok |-> TRUE, it |-> x.it, s |-> s2]
                         ELSE IF x.res # "true" THEN [ok |-> FALSE, err |-> x.res]
                         ELSE Segment_new_loop(data, start, end, x.it, s2)
                 IN  Went([s1 EXCEPT !.frames = (@ + 1) % U16,
                                     !.key_frames = (@ + (IF it.is_key THEN 1 ELSE 0)) % U16],
                          SampleIndexIterator_next(it, data))
    IN  Counted(IF candidate(it, start)
                THEN [begin |-> it, frames |-> 0, key_frames |-> 0]
                ELSE s)

Segment_new_slow(recording, start, end, self_) ==
    LET Looped(l) ==
            IF ~l.ok THEN [ok |-> FALSE, err |-> l.err]
            ELSE [self_ EXCEPT !.begin = Some(l.s.begin),
                               !.frames = l.s.frames,
                               !.key_frames = l.s.key_frames,
                               !.file_end = l.it.pos,
                               !.trailing_zero = l.it.duration_90k = 0]
        First(x) ==
            IF x.res = "false" THEN [ok |-> FALSE, err |-> "no index"]
            ELSE IF x.res # "true" THEN [ok |-> FALSE, err |-> x.res]
            ELSE IF ~x.it.is_key THEN [ok |-> FALSE, err |-> "not key frame"]
            ELSE Looped(Segment_new_loop(
                            recording.video_index, start, end_90k(recording, end), x.it,
                            [begin |-> SampleIndexIterator_new,
                             frames |-> self_.frames, key_frames |-> self_.key_frames]))
    IN  First(SampleIndexIterator_next(SampleIndexIterator_new, recording.video_index))

\* Segment::new(db, recording, start..end): the Segment, with ok, or
\* [ok |-> FALSE, err].
Segment_new(recording, start, end) ==
    LET self_ == [ok |-> TRUE, begin |-> None,
                  file_end |-> recording.sample_file_bytes,
                  desired_range_90k |-> <<start, end>>,
                  frames |-> recording.video_samples % U16,
                  key_frames |-> recording.video_sync_samples % U16,
                  trailing_zero |-> (recording.flags \div TrailingZero) % 2 = 1]
    IN  IF start > end \/ end > recording.duration_90k
        THEN [ok |-> FALSE, err |-> "desired range invalid"]
        ELSE IF start = 0 /\ end = recording.duration_90k
        THEN self_
        ELSE Segment_new_slow(recording, start, end, self_)

\* The range ends at the end of the sample file whatever the Segment.
sample_file_range_ToEndOfFile(s, recording) ==
    <<IF s.begin.some THEN s.begin.v.pos ELSE 0, recording.sample_file_bytes>>

\* Segment::sample_file_range: <<start, end>> of the byte range.  The
\* recording is not used.
sample_file_range(s, recording) ==
    <<IF s.begin.some THEN s.begin.v.pos ELSE 0, s.file_end>>

\* What foreach hands to f for a frame.
Frame(it) ==
    [start_90k |-> it.start_90k, pos |-> it.pos, duration_90k |-> it.duration_90k,
     bytes |-> it.bytes, is_key |-> it.is_key]

\* The body of Segment::foreach's loop for i in 0..frames, from i on:
\* [res, frames], with the frames handed to f.
RECURSIVE Segment_foreach_loop(_, _, _, _, _, _, _)
Segment_foreach_loop(s, data, i, it, have_frame, key_frame, frames) ==
    IF i = s.frames
    THEN [res |-> IF key_frame < s.key_frames THEN "expected more key frames" ELSE "Ok",
          frames |-> frames]
    ELSE IF ~have_frame THEN [res |-> "expected more frames", frames |-> frames]
    ELSE IF it.is_key /\ key_frame + 1 > s.key_frames
    THEN [res |-> "more than expected key frames", frames |-> frames]
    ELSE LET Went(x) ==
                 IF x.res \notin {"true", "false"}
                 THEN [res |-> x.res, frames |-> Append(frames, Frame(it))]
                 ELSE Segment_foreach_loop(s, data, i + 1, x.it, x.res = "true",
                                           key_frame + (IF it.is_key THEN 1 ELSE 0),
                                           Append(frames, Frame(it)))
         IN  Went(SampleIndexIterator_next(it, data))

\* Segment::foreach that takes any frame for the first.
Segment_foreach_AnyFirst(s, data) ==
    LET it == IF s.begin.some THEN s.begin.v ELSE SampleIndexIterator_new
        First(x) ==
            IF x.res = "false" THEN [res |-> "no frames", frames |-> <<>>]
            ELSE IF x.res # "true" THEN [res |-> x.res, frames |-> <<>>]
            ELSE Segment_foreach_loop(s, data, 0, x.it, TRUE, 0, <<>>)
    IN  IF uninitialized(it) THEN First(SampleIndexIterator_next(it, data))
        ELSE Segment_foreach_loop(s, data, 0, it, TRUE, 0, <<>>)

\* Segment::foreach(playback, f) with an f that never fails.
Segment_foreach(s, data) ==
    LET it == IF s.begin.some THEN s.begin.v ELSE SampleIndexIterator_new
        First(x) ==
            IF x.res = "false" THEN [res |-> "no frames", frames |-> <<>>]
            ELSE IF x.res # "true" THEN [res |-> x.res, frames |-> <<>>]
            ELSE IF ~x.it.is_key
            THEN [res |-> "doesn't start with key frame", frames |-> <<>>]
            ELSE Segment_foreach_loop(s, data, 0, x.it, TRUE, 0, <<>>)
    IN  IF uninitialized(it) THEN First(SampleIndexIterator_next(it, data))
        ELSE Segment_foreach_loop(s, data, 0, it, TRUE, 0, <<>>)

-----------------------------------------------------------------------------
(* The sample file directory (DirWriter, FileWriter).  files maps the ids  *)
(* of the files that exist to their contents.  file_synced: files whose    *)
(* sync_all succeeded.  durable: files that were file_synced when a        *)
(* directory sync succeeded.  unlink_pending: ids unlinked, or found       *)
(* absent by unlink, since the last directory sync; unlink_durable: those  *)
(* a directory sync has covered.  Creating a file of an id ends what was   *)
(* known of the absence of that id, unlinking one what was known of its    *)
(* contents.                                                               *)

create_file(dk, id) ==
    [dk EXCEPT !.files = [i \in DOMAIN dk.files \cup {id} |->
                             IF i = id THEN <<>> ELSE dk.files[i]],
               !.unlink_pending = @ \ {id},
               !.unlink_durable = @ \ {id}]

sync_all(dk, f) == [dk EXCEPT !.file_synced = @ \cup {f}]

dir_sync(dk) ==
    [dk EXCEPT !.durable = @ \cup (dk.file_synced \cap DOMAIN dk.files),
               !.unlink_durable = @ \cup dk.unlink_pending,
               !.unlink_pending = {}]

\* unlink_file returning Ok, or ENOENT when the file is absent.
unlink_file(dk, id) ==
    [dk EXCEPT !.files = [i \in (DOMAIN dk.files) \ {id} |-> dk.files[i]],
               !.file_synced = @ \ {id},
               !.durable = @ \ {id},
               !.unlink_pending = @ \cup {id}]

RECURSIVE UnlinkAll(_, _)
UnlinkAll(dk, ids) ==
    IF ids = {} THEN dk
    ELSE LET id == CHOOSE i \in ids : \A j \in ids : i <= j
         IN  UnlinkAll(unlink_file(dk, id), ids \ {id})

-----------------------------------------------------------------------------
(* Writer and InnerWriter. *)

\* InnerWriter::add_sample on inner writer iw and its recording r:
\* [ok, iw, r, d] with d the recording's total duration.
InnerWriter_add_sample(iw, r, duration_90k, bytes, is_key, pkt_local_time) ==
    LET Added(a) ==
            LET new == pkt_local_time - a.r.duration_90k
                local_start == Min(iw.local_start, new)
            IN  IF ~a.ok
                THEN [ok |-> FALSE, iw |-> [iw EXCEPT !.e = a.e], r |-> r, d |-> 0]
                ELSE [ok |-> TRUE,
                      iw |-> [iw EXCEPT !.e = a.e, !.local_start = local_start],
                      r |-> IF a.r.run_offset = 0
                            THEN [a.r EXCEPT !.start = local_start]
                            ELSE a.r,
                      d |-> a.r.duration_90k]
    IN  Added(Encoder_add_sample(iw.e, r, duration_90k, bytes, is_key))

\* The id LockedDatabase::add_recording assigns next.
NextId(d) == d.next_recording_id + Len(d.uncommitted)

\* Position in d.uncommitted of the recording with this id.
RIdx(d, id) == id - d.next_recording_id + 1

\* LockedDatabase::add_recording.
add_recording(d, r) == [d EXCEPT !.uncommitted = Append(@, r)]

\* The InnerWriter Writer::open builds.
InnerWriter_new(id, prev) ==
    [f |-> id, id |-> id, e |-> SampleIndexEncoder_new,
     completed_live_segment_off_90k |-> 0, hasher |-> <<>>,
     local_start |-> TimeMax,
     adjuster |-> ClockAdjuster_new(IF prev.some THEN Some(prev.v.local_time_delta)
                                                 ELSE None),
     unflushed_sample |-> None]

\* Writer::open starting a new run with every recording.
Writer_open_NewRun(wr, d, dk) ==
    IF wr.state = "Open" THEN [w |-> wr, db |-> d, disk |-> dk]
    ELSE LET id == NextId(d)
         IN  [w |-> [wr EXCEPT !.state = "Open", !.inner = InnerWriter_new(id, None)],
              db |-> add_recording(d, RecordingToInsert(0, TimeMax)),
              disk |-> create_file(dk, id)]

\* Writer::open: the writer is Open afterwards; a new recording is added to
\* the database and its file created when the writer was not Open.
Writer_open(wr, d, dk) ==
    IF wr.state = "Open" THEN [w |-> wr, db |-> d, disk |-> dk]
    ELSE LET prev == IF wr.state = "Closed" THEN Some(wr.prev) ELSE None
             id == NextId(d)
             r == RecordingToInsert(IF prev.some THEN prev.v.run_offset + 1 ELSE 0,
                                    IF prev.some THEN prev.v.end ELSE TimeMax)
         IN  [w |-> [wr EXCEPT !.state = "Open", !.inner = InnerWriter_new(id, prev)],
              db |-> add_recording(d, r),
              disk |-> create_file(dk, id)]

\* Writer::write taking a short write for the whole packet.  The loop of
\* Writer::write over FileWriter::write is next: plan lists what the
\* successive calls return: 0 is an error (retry_forever sleeps and calls
\* again with the same slice), n > 0 is Ok(min(n, len)); once the plan is
\* used up every call accepts the whole slice.
WriteLoop_OneCall(content, remaining, plan) ==
    IF remaining = <<>> THEN [content |-> content, errors |-> 0, calls |-> 0]
    ELSE IF plan = <<>>
    THEN [content |-> content \o remaining, errors |-> 0, calls |-> 1]
    ELSE IF Head(plan) = 0
    THEN [content |-> content \o remaining, errors |-> 1, calls |-> 2]
    ELSE [content |-> content \o SubSeq(remaining, 1, Min(Head(plan), Len(remaining))),
          errors |-> 0, calls |-> 1]

RECURSIVE WriteLoop(_, _, _)
WriteLoop(content, remaining, plan) ==
    IF remaining = <<>> THEN [content |-> content, errors |-> 0, calls |-> 0]
    ELSE IF plan = <<>>
    THEN [content |-> content \o remaining, errors |-> 0, calls |-> 1]
    ELSE IF Head(plan) = 0
    THEN LET x == WriteLoop(content, remaining, Tail(plan))
         IN  [x EXCEPT !.errors = @ + 1, !.calls = @ + 1]
    ELSE LET written == Min(Head(plan), Len(remaining))
             x == WriteLoop(content \o SubSeq(remaining, 1, written),
                            SubSeq(remaining, written + 1, Len(remaining)),
                            Tail(plan))
         IN  [x EXCEPT !.calls = @ + 1]

UnflushedSample(local_time, pts_90k, len, is_key) ==
    [local_time |-> local_time, pts_90k |-> pts_90k, len |-> len, is_key |-> is_key]

LiveSegment(id, from, to) == [recording |-> id, off_90k |-> <<from, to>>]

\* `w.unflushed_sample.take()`.
Take(iw) == [iw EXCEPT !.unflushed_sample = None]

\* The sample taken is not put back.
Restore_Forgotten(iw, unflushed) == iw

\* "Restore invariant": `w.unflushed_sample = Some(unflushed)` on the error
\* paths of Writer::write.
Restore(iw, unflushed) == [iw EXCEPT !.unflushed_sample = Some(unflushed)]

\* Writer::write: [res, w, db, disk, live, errors] where live is the
\* sequence of live segments sent and errors the number of failed file
\* writes that were retried.
Writer_write(wr, d, dk, pkt, local_time, pts_90k, is_key, plan) ==
    LET Opened(o) ==
            LET iw == o.w.inner
                i == RIdx(o.db, iw.id)
                u == iw.unflushed_sample
                \* The write loop and the new unflushed sample, after the
                \* held sample (if any) was flushed leaving iw2 and db2.
                Written(iw2, db2, live, loop) ==
                    [res |-> "Ok",
                     w |-> [o.w EXCEPT !.inner =
                               [iw2 EXCEPT !.unflushed_sample =
                                               Some(UnflushedSample(local_time, pts_90k,
                                                                    Len(pkt), is_key)),
                                           !.hasher = @ \o pkt]],
                     db |-> db2,
                     disk |-> [o.disk EXCEPT !.files[iw.id] = loop.content],
                     live |-> live,
                     errors |-> loop.errors]
                Sampled(a) ==
                    IF ~a.ok
                    THEN [res |-> "ErrAddSample",
                          w |-> [o.w EXCEPT !.inner = Restore(a.iw, u.v)],
                          db |-> o.db, disk |-> o.disk, live |-> <<>>, errors |-> 0]
                    ELSE Written(IF is_key
                                 THEN [a.iw EXCEPT !.completed_live_segment_off_90k = a.d]
                                 ELSE a.iw,
                                 [o.db EXCEPT !.uncommitted[i] = a.r],
                                 IF is_key
                                 THEN <<LiveSegment(iw.id,
                                                    iw.completed_live_segment_off_90k, a.d)>>
                                 ELSE <<>>,
                                 WriteLoop(o.disk.files[iw.id], pkt, plan))
                Adjusted(adj) ==
                    Sampled(InnerWriter_add_sample(
                                [Take(iw) EXCEPT !.adjuster = adj.adjuster],
                                o.db.uncommitted[i], adj.val,
                                u.v.len, u.v.is_key, u.v.local_time))
                Flush(duration) ==
                    IF duration <= 0
                    THEN [res |-> "ErrPts",
                          w |-> [o.w EXCEPT !.inner = Restore(Take(iw), u.v)],
                          db |-> o.db, disk |-> o.disk, live |-> <<>>, errors |-> 0]
                    ELSE Adjusted(adjust(iw.adjuster, duration))
            IN  IF u.some
                THEN Flush(SubAsI32(pts_90k, u.v.pts_90k))
                ELSE Written(iw, o.db, <<>>, WriteLoop(o.disk.files[iw.id], pkt, plan))
    IN  Opened(Writer_open(wr, d, dk))

\* InnerWriter::close of the open inner writer of wr: [ok, db, live, prev,
\* cmd] where cmd is the AsyncSaveRecording sent, if any.
InnerWriter_close(iw, d, next_pts) ==
    LET unflushed == iw.unflushed_sample.v
        i == RIdx(d, iw.id)
        flags == IF next_pts.some THEN 0 ELSE TrailingZero
        Sampled(a) ==
            LET local_time_delta == a.iw.local_start - a.r.start
                total_duration == a.r.duration_90k
                l == [a.r EXCEPT !.flags = flags, !.local_time_delta = local_time_delta,
                                 !.sample_file_sha1 = iw.hasher]
            IN  IF ~a.ok
                THEN [ok |-> FALSE, db |-> d, live |-> <<>>, prev |-> None, cmd |-> None]
                ELSE [ok |-> TRUE,
                      db |-> [d EXCEPT !.uncommitted[i] = l],
                      live |-> <<LiveSegment(iw.id, iw.completed_live_segment_off_90k,
                                             a.d)>>,
                      prev |-> Some([end |-> a.r.start + total_duration,
                                     local_time_delta |-> local_time_delta,
                                     run_offset |-> a.r.run_offset]),
                      cmd |-> Some([type |-> "AsyncSaveRecording", id |-> iw.id,
                                    duration |-> total_duration, f |-> iw.f])]
        Adjusted(adj) ==
            Sampled(InnerWriter_add_sample([Take(iw) EXCEPT !.adjuster = adj.adjuster],
                                           d.uncommitted[i], adj.val, unflushed.len,
                                           unflushed.is_key, unflushed.local_time))
    IN  Adjusted(adjust(iw.adjuster,
                        IF next_pts.some THEN SubAsI32(next_pts.v, unflushed.pts_90k)
                                         ELSE 0))

NoInner == [none |-> TRUE]
NoPrev == [none |-> TRUE]

\* Writer::close: [res, w, db, live, cmd].  The state is replaced by
\* Unopened before the inner writer is closed, and set to Closed only when
\* that succeeds.
Writer_close(wr, d, next_pts) ==
    LET Closed(c) ==
            IF c.ok
            THEN [res |-> "Ok",
                  w |-> [state |-> "Closed", inner |-> NoInner, prev |-> c.prev.v],
                  db |-> c.db, live |-> c.live, cmd |-> c.cmd]
            ELSE [res |-> "Err",
                  w |-> [state |-> "Unopened", inner |-> NoInner, prev |-> NoPrev],
                  db |-> d, live |-> <<>>, cmd |-> None]
    IN  IF wr.state # "Open"
        THEN [res |-> "Ok", w |-> wr, db |-> d, live |-> <<>>, cmd |-> None]
        ELSE Closed(InnerWriter_close(wr.inner, d, next_pts))

\* Drop for Writer letting go of the open recording without closing it.
Writer_drop_Unclosed(wr, d, panicking) ==
    [w |-> [state |-> "Dropped", inner |-> NoInner, prev |-> NoPrev],
     db |-> d, live |-> <<>>, cmd |-> None]

\* Drop for Writer: as close(None) with the error swallowed, unless the
\* thread is panicking; the writer is gone afterwards.
Writer_drop(wr, d, panicking) ==
    LET gone == [state |-> "Dropped", inner |-> NoInner, prev |-> NoPrev]
        Closed(c) == [w |-> gone, db |-> c.db, live |-> c.live, cmd |-> c.cmd]
    IN  IF panicking \/ wr.state # "Open"
        THEN [w |-> gone, db |-> d, live |-> <<>>, cmd |-> None]
        ELSE Closed(InnerWriter_close(wr.inner, d, None))

-----------------------------------------------------------------------------
(* The metadata store (LockedDatabase), as the writer and syncer use it.   *)
(* rows are the committed recordings, oldest first; uncommitted the        *)
(* RecordingToInserts added and not yet committed, of which the first      *)
(* synced_recordings are synced; to_delete the rows chosen for deletion    *)
(* and not yet flushed.                                                    *)

round_up(bytes) == ((bytes + 4095) \div 4096) * 4096

Row(id, bytes) == [id |-> id, sample_file_bytes |-> bytes]

RowIds(rows) == {rows[k].id : k \in 1..Len(rows)}

RECURSIVE SumFsBytes(_)
SumFsBytes(rows) ==
    IF rows = <<>> THEN 0
    ELSE round_up(Head(rows).sample_file_bytes) + SumFsBytes(Tail(rows))

\* LockedDatabase::mark_synced: [ok, db].  The recording must be the next
\* unsynced one of its stream.
mark_synced(d, id) ==
    IF id # d.next_recording_id + d.synced_recordings
       \/ d.synced_recordings = Len(d.uncommitted)
    THEN [ok |-> FALSE, db |-> d]
    ELSE [ok |-> TRUE,
          db |-> [d EXCEPT
                    !.fs_bytes_to_add =
                        @ + round_up(d.uncommitted[d.synced_recordings + 1].sample_file_bytes),
                    !.synced_recordings = @ + 1]]

\* The rows LockedDatabase::delete_oldest_recordings offers, oldest first:
\* the committed rows after the last one already chosen for deletion.
DeletionCandidates(d) ==
    LET end == IF d.to_delete = <<>> THEN 0 ELSE d.to_delete[Len(d.to_delete)].id + 1
    IN  SelectSeq(d.rows, LAMBDA row : row.id >= end)

\* The walk of delete_oldest_recordings with the closure of
\* delete_recordings: the rows the closure accepts, in order.
RECURSIVE OldestAccepted(_, _, _)
OldestAccepted(cands, fs_bytes_needed, fs_bytes_to_delete) ==
    IF cands = <<>> THEN <<>>
    ELSE IF fs_bytes_needed >= fs_bytes_to_delete
    THEN <<Head(cands)>> \o
         OldestAccepted(Tail(cands), fs_bytes_needed,
                        fs_bytes_to_delete + round_up(Head(cands).sample_file_bytes))
    ELSE <<>>

\* delete_recordings also offered the synced, not yet committed recordings.
delete_recordings_Uncommitted(d, extra_bytes_needed) ==
    LET fs_bytes_needed == d.fs_bytes + d.fs_bytes_to_add - d.fs_bytes_to_delete
                           + extra_bytes_needed - d.retain_bytes
        synced == [k \in 1..d.synced_recordings |->
                     Row(d.next_recording_id + k - 1, d.uncommitted[k].sample_file_bytes)]
        chosen == OldestAccepted(DeletionCandidates(d) \o synced, fs_bytes_needed, 0)
    IN  IF fs_bytes_needed <= 0 THEN d
        ELSE [d EXCEPT !.to_delete = @ \o chosen,
                       !.fs_bytes_to_delete = @ + SumFsBytes(chosen)]

\* delete_recordings(db, stream_id, extra_bytes_needed): the database
\* afterwards.
delete_recordings(d, extra_bytes_needed) ==
    LET fs_bytes_needed == d.fs_bytes + d.fs_bytes_to_add - d.fs_bytes_to_delete
                           + extra_bytes_needed - d.retain_bytes
        chosen == OldestAccepted(DeletionCandidates(d), fs_bytes_needed, 0)
    IN  IF fs_bytes_needed <= 0 THEN d
        ELSE [d EXCEPT !.to_delete = @ \o chosen,
                       !.fs_bytes_to_delete = @ + SumFsBytes(chosen)]

\* LockedDatabase::flush when it succeeds: synced recordings become rows,
\* rows chosen for deletion become garbage that needs unlinking, and the
\* garbage already unlinked is forgotten.
flush(d) ==
    LET n == d.synced_recordings
        added == [k \in 1..n |->
                    Row(d.next_recording_id + k - 1, d.uncommitted[k].sample_file_bytes)]
        gone == RowIds(d.to_delete)
    IN  [d EXCEPT !.rows = SelectSeq(@ \o added, LAMBDA row : row.id \notin gone),
                  !.uncommitted = SubSeq(@, n + 1, Len(@)),
                  !.next_recording_id = @ + n,
                  !.synced_recordings = 0,
                  !.to_delete = <<>>,
                  !.fs_bytes = @ + d.fs_bytes_to_add - d.fs_bytes_to_delete,
                  !.fs_bytes_to_add = 0,
                  !.fs_bytes_to_delete = 0,
                  !.garbage_needs_unlink = @ \cup gone,
                  !.garbage_unlinked = {},
                  !.flushes = @ + 1]

\* LockedDatabase::delete_garbage.
delete_garbage(d, ids) ==
    [d EXCEPT !.garbage_needs_unlink = @ \ ids,
              !.garbage_unlinked = @ \cup (ids \cap d.garbage_needs_unlink)]

\* The commands the on_flush hook installed by start_syncer sends after a
\* flush: one DatabaseFlushed while the hook is installed and the Syncer's
\* receiver exists.
OnFlush(d, s) ==
    IF d.on_flush /\ s.state \notin {"new", "exited", "panicked"}
    THEN <<[type |-> "DatabaseFlushed"]>> ELSE <<>>

-----------------------------------------------------------------------------
(* Syncer. *)

PlannedFlush(when, recording) == [when |-> when, recording |-> recording, senders |-> {}]

\* BinaryHeap::peek: an entry with the least `when`; the order of entries
\* with equal `when` is left open.
Peeks(h) == {f \in h : \A g \in h : f.when <= g.when}

\* Syncer::save syncing the directory before the file.
Syncer_save_DirSyncFirst(h, d, dk, t, cmd, sync_fails, dir_fails) ==
    LET dk1 == sync_all(dir_sync(dk), cmd.f)
        t1 == t + (sync_fails + dir_fails) * RetrySleep
        m == mark_synced(d, cmd.id)
        d2 == delete_recordings(m.db, 0)
        how_soon == d.flush_if_sec * TIME_UNITS_PER_SEC - cmd.duration
    IN  IF ~m.ok
        THEN [ok |-> FALSE, planned_flushes |-> h, db |-> d, disk |-> dk1, now |-> t1]
        ELSE [ok |-> TRUE,
              planned_flushes |-> h \cup {[when |-> t1 + how_soon, recording |-> cmd.id,
                                           senders |-> {}]},
              db |-> d2, disk |-> dk1, now |-> t1]

\* Syncer::save never planning a flush before the present.
Syncer_save_Clamped(h, d, dk, t, cmd, sync_fails, dir_fails) ==
    LET dk1 == dir_sync(sync_all(dk, cmd.f))
        t1 == t + (sync_fails + dir_fails) * RetrySleep
        m == mark_synced(d, cmd.id)
        d2 == delete_recordings(m.db, 0)
        how_soon == d.flush_if_sec * TIME_UNITS_PER_SEC - cmd.duration
    IN  IF ~m.ok
        THEN [ok |-> FALSE, planned_flushes |-> h, db |-> d, disk |-> dk1, now |-> t1]
        ELSE [ok |-> TRUE,
              planned_flushes |-> h \cup {PlannedFlush(t1 + Max(0, how_soon), cmd.id)},
              db |-> d2, disk |-> dk1, now |-> t1]

\* Syncer::save: [ok, planned_flushes, db, disk, now].  sync_fails  and
\* dir_fails are the numbers of failed attempts retry_forever sees.
Syncer_save(h, d, dk, t, cmd, sync_fails, dir_fails) ==
    LET dk1 == dir_sync(sync_all(dk, cmd.f))
        t1 == t + (sync_fails + dir_fails) * RetrySleep
        m == mark_synced(d, cmd.id)
        d2 == delete_recordings(m.db, 0)
        how_soon == d.flush_if_sec * TIME_UNITS_PER_SEC - cmd.duration
    IN  IF ~m.ok
        THEN [ok |-> FALSE, planned_flushes |-> h, db |-> d, disk |-> dk1, now |-> t1]
        ELSE [ok |-> TRUE,
              planned_flushes |-> h \cup {PlannedFlush(t1 + how_soon, cmd.id)},
              db |-> d2, disk |-> dk1, now |-> t1]

\* The loop at the start of Syncer::flush: the heaps it can leave, each with
\* the head it stopped at (None when the heap ran empty).
RECURSIVE PopCommitted(_, _)
PopCommitted(h, d) ==
    IF h = {} THEN {[heap |-> h, head |-> None]}
    ELSE UNION {IF d.next_recording_id <= f.recording
                THEN {[heap |-> h, head |-> Some(f)]}
                ELSE PopCommitted(h \ {f}, d) : f \in Peeks(h)}

\* Syncer::flush removing only the head after a successful flush.
Syncer_flush_PopsHead(p, d, t, flush_ok) ==
    IF ~p.head.some THEN [did |-> "nothing_planned", planned_flushes |-> p.heap, db |-> d]
    ELSE IF p.head.v.when > t
    THEN [did |-> "not_due", planned_flushes |-> p.heap, db |-> d]
    ELSE IF ~flush_ok
    THEN [did |-> "flush_failed",
          planned_flushes |-> (p.heap \ {p.head.v})
                              \cup {[p.head.v EXCEPT !.when = t + FlushRetry]},
          db |-> d]
    ELSE [did |-> "flushed", planned_flushes |-> p.heap \ {p.head.v}, db |-> flush(d)]

\* Syncer::flush flushing although the head is not due.
Syncer_flush_NotDue(p, d, t, flush_ok) ==
    IF ~p.head.some THEN [did |-> "nothing_planned", planned_flushes |-> p.heap, db |-> d]
    ELSE IF p.head.v.when > t
    THEN [did |-> "not_due", planned_flushes |-> p.heap, db |-> flush(d)]
    ELSE IF ~flush_ok
    THEN [did |-> "flush_failed",
          planned_flushes |-> (p.heap \ {p.head.v})
                              \cup {[p.head.v EXCEPT !.when = t + FlushRetry]},
          db |-> d]
    ELSE [did |-> "flushed", planned_flushes |-> {}, db |-> flush(d)]

\* Syncer::flush dropping the head's senders when the flush fails.
Syncer_flush_RetryDropsSenders(p, d, t, flush_ok) ==
    IF ~p.head.some THEN [did |-> "nothing_planned", planned_flushes |-> p.heap, db |-> d]
    ELSE IF p.head.v.when > t
    THEN [did |-> "not_due", planned_flushes |-> p.heap, db |-> d]
    ELSE IF ~flush_ok
    THEN [did |-> "flush_failed",
          planned_flushes |-> (p.heap \ {p.head.v})
                              \cup {[p.head.v EXCEPT !.when = t + FlushRetry,
                                                     !.senders = {}]},
          db |-> d]
    ELSE [did |-> "flushed", planned_flushes |-> {}, db |-> flush(d)]

\* Syncer::flush giving up the head's planned flush when the flush fails.
Syncer_flush_GivesUp(p, d, t, flush_ok) ==
    IF ~p.head.some THEN [did |-> "nothing_planned", planned_flushes |-> p.heap, db |-> d]
    ELSE IF p.head.v.when > t
    THEN [did |-> "not_due", planned_flushes |-> p.heap, db |-> d]
    ELSE IF ~flush_ok
    THEN [did |-> "flush_failed", planned_flushes |-> p.heap \ {p.head.v}, db |-> d]
    ELSE [did |-> "flushed", planned_flushes |-> {}, db |-> flush(d)]

\* Syncer::flush after that loop left p: [did, planned_flushes, db].
Syncer_flush(p, d, t, flush_ok) ==
    IF ~p.head.some THEN [did |-> "nothing_planned", planned_flushes |-> p.heap, db |-> d]
    ELSE IF p.head.v.when > t
    THEN [did |-> "not_due", planned_flushes |-> p.heap, db |-> d]
    ELSE IF ~flush_ok
    THEN [did |-> "flush_failed",
          planned_flushes |-> (p.heap \ {p.head.v})
                              \cup {[p.head.v EXCEPT !.when = t + FlushRetry]},
          db |-> d]
    ELSE [did |-> "flushed", planned_flushes |-> {}, db |-> flush(d)]

\* collect_garbage syncing the directory before it unlinks.
collect_garbage_unlink_SyncFirst(dk, garbage) == UnlinkAll(dir_sync(dk), garbage)

\* collect_garbage unlinking nothing.
collect_garbage_unlink_Skipped(dk, garbage) == dir_sync(dk)

\* The part of Syncer::collect_garbage between its two uses of the database
\* lock: every garbage file is unlinked (ENOENT counts as done), then the
\* directory is synced; each step is retried until it succeeds.
collect_garbage_unlink(dk, garbage) == dir_sync(UnlinkAll(dk, garbage))

\* The stream whose sample files the directory holds.
StreamId == 1

\* A directory entry's name: valid says whether dir::parse_id accepts it, and
\* then (stream, recording) is the CompositeId it denotes.
Name(stream, recording, valid) ==
    [stream |-> stream, recording |-> recording, valid |-> valid]

\* What read_dir yields: the stream's sample files and the other entries.
DirEntries(dk) == {Name(StreamId, id, TRUE) : id \in DOMAIN dk.files} \cup dk.others

\* list_files_to_abandon taking next_recording_id itself to be committed.
list_files_to_abandon_PastNext(dk, d) ==
    LET streams_to_next == [s \in {StreamId} |-> d.next_recording_id]
    IN  {e.recording : e \in {x \in DirEntries(dk) :
                                 /\ x.valid
                                 /\ x.stream \in DOMAIN streams_to_next
                                 /\ x.recording > streams_to_next[x.stream]}}

\* The ids Syncer::new abandons: of the entries whose name parses and
\* whose stream is one of the directory's (streams_to_next), those at or past
\* the stream's next_recording_id.
list_files_to_abandon(dk, d) ==
    LET streams_to_next == [s \in {StreamId} |-> d.next_recording_id]
    IN  {e.recording : e \in {x \in DirEntries(dk) :
                                 /\ x.valid
                                 /\ x.stream \in DOMAIN streams_to_next
                                 /\ x.recording >= streams_to_next[x.stream]}}

\* The ids of ids, in increasing order.
RECURSIVE Ascending(_)
Ascending(ids) ==
    IF ids = {} THEN <<>>
    ELSE LET id == CHOOSE i \in ids : \A j \in ids : i <= j
         IN  <<id>> \o Ascending(ids \ {id})

\* The unlink_file calls over ids that return Ok (the file existed), in
\* the order made.
Unlinked(dk, ids) == Ascending(ids \cap DOMAIN dk.files)

\* do_rotation giving up at the first garbage file it cannot unlink.
do_rotation_StopsAtError(d1, dk, flush1_ok, bad, sync_ok, flush2_ok) ==
    LET d2 == flush(d1)
        garbage == d2.garbage_needs_unlink
        first == IF garbage \cap bad = {} THEN 0
                 ELSE CHOOSE i \in garbage \cap bad : \A j \in garbage \cap bad : i <= j
        tried == IF first = 0 THEN garbage ELSE {i \in garbage : i < first}
        dk1 == UnlinkAll(dk, tried)
        dk2 == dir_sync(dk1)
        d3 == delete_garbage(d2, garbage)
        unlinked == Unlinked(dk, tried)
    IN  IF ~flush1_ok
        THEN [ok |-> FALSE, db |-> d1, disk |-> dk, gced |-> {}, unlinked |-> <<>>,
              failed |-> {}]
        ELSE IF garbage = {}
        THEN [ok |-> TRUE, db |-> d2, disk |-> dk, gced |-> {}, unlinked |-> <<>>,
              failed |-> {}]
        ELSE IF garbage \cap bad # {}
        THEN [ok |-> FALSE, db |-> d2, disk |-> dk1, gced |-> {}, unlinked |-> unlinked,
              failed |-> garbage \cap bad]
        ELSE IF ~sync_ok
        THEN [ok |-> FALSE, db |-> d2, disk |-> dk1, gced |-> {}, unlinked |-> unlinked,
              failed |-> {}]
        ELSE IF ~flush2_ok
        THEN [ok |-> FALSE, db |-> d3, disk |-> dk2, gced |-> garbage,
              unlinked |-> unlinked, failed |-> {}]
        ELSE [ok |-> TRUE, db |-> flush(d3), disk |-> dk2, gced |-> garbage,
              unlinked |-> unlinked, failed |-> {}]

\* Syncer::do_rotation after its closure chose what to delete (d1):
\* [ok, db, disk, gced, unlinked, failed].  flush1_ok, sync_ok, flush2_ok say whether the two
\* flushes and the directory sync succeed; bad is the set of ids whose
\* unlink fails with an error other than ENOENT.
do_rotation(d1, dk, flush1_ok, bad, sync_ok, flush2_ok) ==
    LET d2 == flush(d1)
        garbage == d2.garbage_needs_unlink
        dk1 == UnlinkAll(dk, garbage \ bad)
        dk2 == dir_sync(dk1)
        d3 == delete_garbage(d2, garbage)
        unlinked == Unlinked(dk, garbage \ bad)
    IN  IF ~flush1_ok
        THEN [ok |-> FALSE, db |-> d1, disk |-> dk, gced |-> {}, unlinked |-> <<>>,
              failed |-> {}]
        ELSE IF garbage = {}
        THEN [ok |-> TRUE, db |-> d2, disk |-> dk, gced |-> {}, unlinked |-> <<>>,
              failed |-> {}]
        ELSE IF garbage \cap bad # {}
        THEN [ok |-> FALSE, db |-> d2, disk |-> dk1, gced |-> {}, unlinked |-> unlinked,
              failed |-> garbage \cap bad]
        ELSE IF ~sync_ok
        THEN [ok |-> FALSE, db |-> d2, disk |-> dk1, gced |-> {}, unlinked |-> unlinked,
              failed |-> {}]
        ELSE IF ~flush2_ok
        THEN [ok |-> FALSE, db |-> d3, disk |-> dk2, gced |-> garbage,
              unlinked |-> unlinked, failed |-> {}]
        ELSE [ok |-> TRUE, db |-> flush(d3), disk |-> dk2, gced |-> garbage,
              unlinked |-> unlinked, failed |-> {}]

\* Syncer::new abandoning nothing.
Syncer_new_KeepFiles(dk, d, abandon_bad) == [ok |-> TRUE, disk |-> dk]

\* Syncer::new: [ok, disk].  abandon_bad are the abandoned files whose
\* unlink fails with an error other than ENOENT.
Syncer_new(dk, d, abandon_bad) ==
    [ok |-> abandon_bad = {},
     disk |-> UnlinkAll(dk, list_files_to_abandon(dk, d) \ abandon_bad)]

\* The closure of lower_retention for the limit l of the stream.
lower_retention_closure(d, limit) ==
    LET fs_bytes_before == d.fs_bytes + d.fs_bytes_to_add - d.fs_bytes_to_delete
        extra == d.retain_bytes - limit
    IN  IF limit >= fs_bytes_before THEN d ELSE delete_recordings(d, extra)

NewLimit(stream_id, limit) == [stream_id |-> stream_id, limit |-> limit]

\* The closure of lower_retention over all its limits: [ok, db].  A limit
\* of a stream the database does not have is an error, after the limits
\* before it were applied.
RECURSIVE lower_retention_limits(_, _)
lower_retention_limits(d, limits) ==
    IF limits = <<>> THEN [ok |-> TRUE, db |-> d]
    ELSE IF Head(limits).stream_id # StreamId THEN [ok |-> FALSE, db |-> d]
    ELSE lower_retention_limits(lower_retention_closure(d, Head(limits).limit),
                                Tail(limits))

-----------------------------------------------------------------------------
(* Initial states: the database and directory as a previous run left them, *)
(* before start_syncer.                                                    *)

Database(rows, next, garbage, retain_bytes, flush_if_sec) ==
    [next_recording_id |-> next, uncommitted |-> <<>>, synced_recordings |-> 0,
     rows |-> rows, to_delete |-> <<>>,
     fs_bytes |-> SumFsBytes(rows), fs_bytes_to_add |-> 0, fs_bytes_to_delete |-> 0,
     retain_bytes |-> retain_bytes, flush_if_sec |-> flush_if_sec,
     garbage_needs_unlink |-> garbage, garbage_unlinked |-> {},
     flushes |-> 0, on_flush |-> FALSE]

\* A directory whose files of committed recordings (synced) are durable.
Directory(files, synced) ==
    [files |-> files, file_synced |-> synced, durable |-> synced,
     unlink_pending |-> {}, unlink_durable |-> {}, others |-> {}]

\* Two recordings on disk, one piece of garbage whose file a crashed run
\* had already unlinked, and a file a crashed writer left at the next id.
\* The stream retains nothing (retain_bytes 0), or one block and a byte.
RetainBytes == {0, 4097}

BootStates ==
    { [db |-> Database(<<Row(2, 2), Row(3, 1)>>, 4, {1}, retain_bytes, 1),
       disk |-> Directory([i \in {2, 3, 4} |-> IF i = 2 THEN <<1, 2>> ELSE <<9>>],
                          {2, 3})] : retain_bytes \in RetainBytes }

NoWriter == [state |-> "Dropped", inner |-> NoInner, prev |-> NoPrev]

NoCall == [op |-> "none"]

\* No call of retry_forever on its own is under way.
NoRetry == [pc |-> "none"]

NoIterator == [none |-> TRUE]

NoSegment == [none |-> TRUE]

NoThreads == [none |-> TRUE]

\* The database's flush count when the last collect_garbage read the
\* garbage list (from) and when it called delete_garbage (to).
NoGc == [from |-> 0, to |-> 0]

InitOf(boot) ==
    /\ w = NoWriter
    /\ db = boot.db
    /\ disk = boot.disk
    /\ chan = [queue |-> <<>>, handle |-> FALSE]
    /\ syncer = [state |-> "new", planned_flushes |-> {}, garbage |-> {}]
    /\ now = 0
    /\ hist = [sent |-> <<>>, live |-> <<>>, writes |-> 0, opened |-> {},
               ended |-> {}, marked |-> {}, committed |-> RowIds(boot.db.rows)
                              \cup boot.db.garbage_needs_unlink,
               deleted |-> {}, gced |-> {}, unlinks |-> <<>>, released |-> {},
               gc |-> NoGc, pkts |-> <<>>, samples |-> <<>>, yielded |-> <<>>,
               wrapped |-> FALSE, last |-> NoCall]
    /\ budget = [faults |-> MaxFaults, other_flushes |-> MaxOtherFlushes,
                 flush_calls |-> MaxFlushCalls]
    /\ retry = NoRetry
    /\ iter = NoIterator
    /\ seg = NoSegment

\* No thread is followed at the database lock.
InitWith(boot) == InitOf(boot) /\ thr = NoThreads

Init == \E boot \in BootStates : InitWith(boot)

\* What a flush of database d (before) into d2 (after) commits, for hist.
Committing(d) == {d.next_recording_id + k - 1 : k \in 1..d.synced_recordings}

NoteFlush(h, d) == [h EXCEPT !.committed = @ \cup Committing(d)]

-----------------------------------------------------------------------------
(* start_syncer and lower_retention. *)

\* Number of injected faults among the outcomes of one rotation.
Faults(abandon_bad, flush1_ok, bad, sync_ok, flush2_ok) ==
    Cardinality(abandon_bad) + Cardinality(bad)
    + (IF flush1_ok THEN 0 ELSE 1) + (IF sync_ok THEN 0 ELSE 1)
    + (IF flush2_ok THEN 0 ELSE 1)

\* Syncer::new followed by do_rotation, as start_syncer and lower_retention
\* (op, called with arg) run them.  cl is what do_rotation's closure returns
\* and leaves of the database, [ok, db]: if it fails do_rotation returns
\* its error at once.
Rotation(cl, arg, abandon_bad, flush1_ok, bad, sync_ok, flush2_ok, op) ==
    LET sn == Syncer_new(disk, db, abandon_bad)
        d1 == cl.db
        rot == IF cl.ok
               THEN do_rotation(d1, sn.disk, flush1_ok, bad, sync_ok, flush2_ok)
               ELSE [ok |-> FALSE, db |-> d1, disk |-> sn.disk, gced |-> {},
                     unlinked |-> <<>>, failed |-> {}]
        faults == Faults(abandon_bad, flush1_ok, bad, sync_ok, flush2_ok)
        ok == sn.ok /\ rot.ok
        started == ok /\ op = "start_syncer"
    IN  /\ syncer.state = "new"
        /\ abandon_bad \subseteq list_files_to_abandon(disk, db)
        /\ bad \subseteq (db.garbage_needs_unlink \cup RowIds(d1.to_delete))
        /\ cl.ok \/ (bad = {} /\ flush1_ok /\ sync_ok /\ flush2_ok)
        /\ faults <= budget.faults
        /\ budget' = [budget EXCEPT !.faults = @ - faults]
        /\ disk' = IF sn.ok THEN rot.disk ELSE sn.disk
        /\ db' = IF sn.ok THEN [rot.db EXCEPT !.on_flush = started] ELSE db
        /\ syncer' = [syncer EXCEPT !.state = IF started THEN "idle" ELSE "new"]
        /\ chan' = [chan EXCEPT !.handle = started]
        /\ hist' = IF sn.ok
                   THEN [hist EXCEPT !.deleted = @ \cup RowIds(d1.to_delete),
                                     !.gced = @ \cup rot.gced,
                                     !.unlinks = @ \o rot.unlinked,
                                     !.last = [op |-> op, res |-> ok, arg |-> arg,
                                               failed |-> rot.failed]]
                   ELSE [hist EXCEPT !.last = [op |-> op, res |-> ok, arg |-> arg,
                                               failed |-> {}]]
        /\ UNCHANGED <<w, now, retry, iter, seg, thr>>

\* start_syncer: Syncer::new abandons files, the initial rotation runs, the
\* channel is made and the on_flush hook installed.
StartSyncer(abandon_bad, flush1_ok, bad, sync_ok, flush2_ok) ==
    Rotation([ok |-> TRUE, db |-> delete_recordings(db, 0)], <<>>, abandon_bad,
             flush1_ok, bad, sync_ok, flush2_ok, "start_syncer")

\* lower_retention(db, dir_id, limits), run (by the configuration tool)
\* once, before anything else.
LowerRetention(limits, abandon_bad, flush1_ok, bad, sync_ok, flush2_ok) ==
    /\ hist.last = NoCall
    /\ Rotation(lower_retention_limits(db, limits), limits, abandon_bad, flush1_ok,
                bad, sync_ok, flush2_ok, "lower_retention")

-----------------------------------------------------------------------------
(* The Writer's thread. *)

\* Writer::new, on a SyncerChannel clone it borrows for its lifetime.
NewWriter ==
    /\ w.state = "Dropped"
    /\ chan.handle
    /\ w' = [state |-> "Unopened", inner |-> NoInner, prev |-> NoPrev]
    /\ hist' = [hist EXCEPT !.last = [op |-> "new"]]
    /\ UNCHANGED <<db, chan, syncer, disk, now, budget, retry, iter, seg, thr>>

\* The packets of the Writer::write calls that returned Ok, concatenated per
\* recording, with pkt added to recording id's.
Accepted(pkts, id, pkt) ==
    [r \in DOMAIN pkts \cup {id} |->
        (IF r \in DOMAIN pkts THEN pkts[r] ELSE <<>>) \o (IF r = id THEN pkt ELSE <<>>)]

\* Sending on the channel: commands sent while the Syncer runs are queued.
Send(cmds) == [chan EXCEPT !.queue = @ \o cmds]

OptSeq(o) == IF o.some THEN <<o.v>> ELSE <<>>

\* Writer::write(pkt, local_time, pts_90k, is_key).  create_fails is the
\* number of failed create_file attempts when a file is created, plan the
\* results of the file writes.
Write(pkt, local_time, pts_90k, is_key, create_fails, plan) ==
    /\ w.state \in {"Unopened", "Open", "Closed"}
    /\ hist.writes < MaxWrites
    /\ w.state # "Open" => Cardinality(hist.opened) < MaxRecordings
    /\ w.state = "Open" => create_fails = 0
    /\ \E x \in {Writer_write(w, db, disk, pkt, local_time, pts_90k, is_key, plan)} :
       LET faults == x.errors + create_fails
       IN  /\ faults <= budget.faults
           /\ w' = x.w
           /\ db' = x.db
           /\ disk' = x.disk
           /\ now' = now + faults * RetrySleep
           /\ budget' = [budget EXCEPT !.faults = @ - faults]
           /\ hist' = [hist EXCEPT !.writes = @ + 1,
                                   !.live = @ \o x.live,
                                   !.opened = @ \cup {x.w.inner.id},
                                   !.pkts = Accepted(@, x.w.inner.id,
                                                     IF x.res = "Ok" THEN pkt ELSE <<>>),
                                   !.last = [op |-> "write", res |-> x.res,
                                             pts_90k |-> pts_90k]]
    /\ UNCHANGED <<chan, syncer, retry, iter, seg, thr>>

\* What became of the recording the writer had open when it was closed or
\* dropped.
Ended(wr, how) == IF wr.state = "Open" THEN {[id |-> wr.inner.id, how |-> how]} ELSE {}

\* Writer::close(next_pts).
Close(next_pts) ==
    /\ w.state \in {"Unopened", "Open", "Closed"}
    /\ \E x \in {Writer_close(w, db, next_pts)} :
           /\ w' = x.w
           /\ db' = x.db
           /\ chan' = Send(OptSeq(x.cmd))
           /\ hist' = [hist EXCEPT !.live = @ \o x.live,
                                   !.sent = @ \o OptSeq(x.cmd),
                                   !.ended = @ \cup Ended(w, IF x.res = "Ok" THEN "close_ok"
                                                                             ELSE "close_err"),
                                   !.last = [op |-> "close", res |-> x.res,
                                             next_pts |-> next_pts]]
    /\ UNCHANGED <<syncer, disk, now, budget, retry, iter, seg, thr>>

\* Dropping the Writer, in a panic or not.
Drop(panicking) ==
    /\ w.state \in {"Unopened", "Open", "Closed"}
    /\ \E x \in {Writer_drop(w, db, panicking)} :
           /\ w' = x.w
           /\ db' = x.db
           /\ chan' = Send(OptSeq(x.cmd))
           /\ hist' = [hist EXCEPT !.live = @ \o x.live,
                                   !.sent = @ \o OptSeq(x.cmd),
                                   !.ended = @ \cup Ended(w, IF panicking THEN "drop_panicking"
                                                                          ELSE "drop"),
                                   !.last = [op |-> "drop", res |-> "Ok"]]
    /\ UNCHANGED <<syncer, disk, now, budget, retry, iter, seg, thr>>

-----------------------------------------------------------------------------
(* The Syncer's thread: Syncer::iter, one action per outcome of the        *)
(* receive.  A queued command is received before a timeout or a disconnect *)
(* is reported.                                                            *)

Connected == chan.handle \/ db.on_flush

\* iter receives AsyncSaveRecording and runs Syncer::save.
IterSave(sync_fails, dir_fails) ==
    /\ syncer.state = "idle"
    /\ chan.queue # <<>>
    /\ Head(chan.queue).type = "AsyncSaveRecording"
    /\ sync_fails + dir_fails <= budget.faults
    /\ LET cmd == Head(chan.queue)
           x == Syncer_save(syncer.planned_flushes, db, disk, now, cmd,
                            sync_fails, dir_fails)
       IN  /\ syncer' = [syncer EXCEPT !.planned_flushes = x.planned_flushes,
                                       !.state = IF x.ok THEN "idle" ELSE "panicked"]
           /\ db' = x.db
           /\ disk' = x.disk
           /\ now' = x.now
           /\ hist' = [hist EXCEPT
                         !.marked = @ \cup (IF x.ok THEN {cmd.id} ELSE {}),
                         !.deleted = @ \cup RowIds(x.db.to_delete),
                         !.last = [op |-> "iter", res |-> IF x.ok THEN "save" ELSE "panic",
                                   id |-> cmd.id, retries |-> sync_fails + dir_fails]]
    /\ chan' = [chan EXCEPT !.queue = Tail(@)]
    /\ budget' = [budget EXCEPT !.faults = @ - (sync_fails + dir_fails)]
    /\ UNCHANGED <<w, retry, iter, seg, thr>>

\* iter receives DatabaseFlushed and starts Syncer::collect_garbage, which
\* reads garbage_needs_unlink under the database lock.
IterDatabaseFlushed ==
    /\ syncer.state = "idle"
    /\ chan.queue # <<>>
    /\ Head(chan.queue).type = "DatabaseFlushed"
    /\ syncer' = [syncer EXCEPT
                    !.garbage = db.garbage_needs_unlink,
                    !.state = IF db.garbage_needs_unlink = {} THEN "idle" ELSE "gc_unlink"]
    /\ chan' = [chan EXCEPT !.queue = Tail(@)]
    /\ hist' = [hist EXCEPT !.gc = IF db.garbage_needs_unlink = {} THEN @
                                  ELSE [from |-> db.flushes, to |-> db.flushes],
                            !.last = [op |-> "iter", res |-> "collect_garbage"]]
    /\ UNCHANGED <<w, db, disk, now, budget, retry, iter, seg, thr>>

\* collect_garbage unlinks the files and syncs the directory, without the
\* database lock; fails is the number of failed attempts retried.
GcUnlink(fails) ==
    /\ syncer.state = "gc_unlink"
    /\ fails <= budget.faults
    /\ disk' = collect_garbage_unlink(disk, syncer.garbage)
    /\ now' = now + fails * RetrySleep
    /\ budget' = [budget EXCEPT !.faults = @ - fails]
    /\ syncer' = [syncer EXCEPT !.state = "gc_delete"]
    /\ hist' = [hist EXCEPT !.unlinks = @ \o Unlinked(disk, syncer.garbage),
                            !.last = [op |-> "gc", res |-> "unlinked"]]
    /\ UNCHANGED <<w, db, chan, retry, iter, seg, thr>>

\* collect_garbage ends with delete_garbage under the database lock.
GcDelete ==
    /\ syncer.state = "gc_delete"
    /\ db' = delete_garbage(db, syncer.garbage)
    /\ syncer' = [syncer EXCEPT !.state = "idle", !.garbage = {}]
    /\ hist' = [hist EXCEPT !.gced = @ \cup (syncer.garbage \cap db.garbage_needs_unlink),
                            !.gc.to = db.flushes,
                            !.last = [op |-> "gc", res |-> "deleted"]]
    /\ UNCHANGED <<w, chan, disk, now, budget, retry, iter, seg, thr>>

\* iter dropping the sender of a Flush command whatever the heap holds.
IterFlushCommand_DropsAtOnce ==
    /\ syncer.state = "idle"
    /\ chan.queue # <<>>
    /\ Head(chan.queue).type = "Flush"
    /\ hist' = [hist EXCEPT !.released = @ \cup {Head(chan.queue).sender},
                            !.last = [op |-> "iter", res |-> "flush_cmd"]]
    /\ chan' = [chan EXCEPT !.queue = Tail(@)]
    /\ UNCHANGED <<w, db, syncer, disk, now, budget, retry, iter, seg, thr>>

\* iter receives Flush(sender): the sender is attached to the head of the
\* heap, or dropped at once when the heap is empty.
IterFlushCommand ==
    /\ syncer.state = "idle"
    /\ chan.queue # <<>>
    /\ Head(chan.queue).type = "Flush"
    /\ LET snd == Head(chan.queue).sender
       IN  IF syncer.planned_flushes = {}
           THEN /\ hist' = [hist EXCEPT !.released = @ \cup {snd},
                                        !.last = [op |-> "iter", res |-> "flush_cmd"]]
                /\ UNCHANGED syncer
           ELSE /\ \E f \in Peeks(syncer.planned_flushes) :
                     syncer' = [syncer EXCEPT !.planned_flushes =
                                   (@ \ {f}) \cup {[f EXCEPT !.senders = @ \cup {snd}]}]
                /\ hist' = [hist EXCEPT !.last = [op |-> "iter", res |-> "flush_cmd"]]
    /\ chan' = [chan EXCEPT !.queue = Tail(@)]
    /\ UNCHANGED <<w, db, disk, now, budget, retry, iter, seg, thr>>

Senders(h) == UNION {f.senders : f \in h}

\* The receive times out (no command queued, a sender still exists): the
\* clock has reached the head's `when`, and iter runs Syncer::flush.
IterTimeout(flush_ok) ==
    /\ syncer.state = "idle"
    /\ chan.queue = <<>>
    /\ Connected
    /\ syncer.planned_flushes # {}
    /\ LET next_flush == (CHOOSE f \in Peeks(syncer.planned_flushes) : TRUE).when
           t == Max(now, next_flush)
       IN  \E p \in PopCommitted(syncer.planned_flushes, db) :
             LET x == Syncer_flush(p, db, t, flush_ok)
             IN  /\ flush_ok \/ (x.did = "flush_failed" /\ budget.faults > 0)
                 /\ now' = t
                 /\ syncer' = [syncer EXCEPT !.planned_flushes = x.planned_flushes]
                 /\ db' = x.db
                 /\ chan' = IF x.did = "flushed" THEN Send(OnFlush(db, syncer)) ELSE chan
                 /\ budget' = [budget EXCEPT !.faults = IF flush_ok THEN @ ELSE @ - 1]
                 /\ hist' = [IF x.did = "flushed" THEN NoteFlush(hist, db) ELSE hist
                               EXCEPT !.released = @ \cup (Senders(syncer.planned_flushes)
                                                           \ Senders(x.planned_flushes)),
                                      !.last = [op |-> "iter", res |-> x.did,
                                                before |-> syncer.planned_flushes,
                                                flushes |-> x.db.flushes - db.flushes]]
    /\ UNCHANGED <<w, disk, retry, iter, seg, thr>>

\* iter returning false while commands are still queued.
IterDisconnected_Undrained ==
    /\ syncer.state = "idle"
    /\ ~Connected
    /\ syncer' = [syncer EXCEPT !.state = "exited"]
    /\ hist' = [hist EXCEPT !.released = @ \cup Senders(syncer.planned_flushes),
                            !.last = [op |-> "iter", res |-> "exit"]]
    /\ UNCHANGED <<w, db, chan, disk, now, budget, retry, iter, seg, thr>>

\* The receive reports the channel disconnected: iter returns false and the
\* thread ends.  planned_flushes keeps what the heap held at that moment.
IterDisconnected ==
    /\ syncer.state = "idle"
    /\ chan.queue = <<>>
    /\ ~Connected
    /\ syncer' = [syncer EXCEPT !.state = "exited"]
    /\ hist' = [hist EXCEPT !.released = @ \cup Senders(syncer.planned_flushes),
                            !.last = [op |-> "iter", res |-> "exit"]]
    /\ UNCHANGED <<w, db, chan, disk, now, budget, retry, iter, seg, thr>>

-----------------------------------------------------------------------------
(* The environment. *)

Running == syncer.state \notin {"new", "panicked"}

\* Another party (another directory's syncer, a test) flushes the database.
OtherFlush ==
    /\ Running
    /\ budget.other_flushes > 0
    /\ db' = flush(db)
    /\ chan' = Send(OnFlush(db, syncer))
    /\ budget' = [budget EXCEPT !.other_flushes = @ - 1]
    /\ hist' = [NoteFlush(hist, db) EXCEPT !.last = [op |-> "other_flush"]]
    /\ UNCHANGED <<w, syncer, disk, now, retry, iter, seg, thr>>

\* SyncerChannel::flush sends Flush with a fresh sender (and then waits for
\* the sender to be dropped); called, as the tests do, between writers.
ChannelFlush ==
    /\ chan.handle
    /\ w.state = "Dropped"
    /\ syncer.state \notin {"new", "exited", "panicked"}
    /\ budget.flush_calls > 0
    /\ chan' = Send(<<[type |-> "Flush", sender |-> budget.flush_calls]>>)
    /\ budget' = [budget EXCEPT !.flush_calls = @ - 1]
    /\ hist' = [hist EXCEPT !.last = [op |-> "channel_flush"]]
    /\ UNCHANGED <<w, db, syncer, disk, now, retry, iter, seg, thr>>

\* The senders whose SyncerChannel::flush is still blocked in recv: those of
\* the Flush commands queued and those the heap of a live Syncer holds.
Waiting ==
    {chan.queue[k].sender : k \in {j \in DOMAIN chan.queue : chan.queue[j].type = "Flush"}}
    \cup (IF syncer.state \in {"exited", "panicked"} THEN {}
          ELSE Senders(syncer.planned_flushes))

\* The last SyncerChannel clone is dropped; no Writer borrows one, and no
\* caller is blocked in SyncerChannel::flush, which borrows one too.
DropChannel ==
    /\ chan.handle
    /\ w.state = "Dropped"
    /\ Waiting = {}
    /\ chan' = [chan EXCEPT !.handle = FALSE]
    /\ hist' = [hist EXCEPT !.last = [op |-> "drop_channel"]]
    /\ UNCHANGED <<w, db, syncer, disk, now, budget, retry, iter, seg, thr>>

\* LockedDatabase::clear_on_flush drops the hook and its sender; at
\* shutdown, after the channel is dropped.
ClearOnFlush ==
    /\ db.on_flush
    /\ ~chan.handle
    /\ db' = [db EXCEPT !.on_flush = FALSE]
    /\ hist' = [hist EXCEPT !.last = [op |-> "clear_on_flush"]]
    /\ UNCHANGED <<w, chan, syncer, disk, now, budget, retry, iter, seg, thr>>

-----------------------------------------------------------------------------
(* The system: one directory, one stream, one writer at a time. *)

\* The stream's timestamps advance by one second per frame.
NextPts == I64(0, hist.writes * TIME_UNITS_PER_SEC)
WritePlans == {<<>>, <<0>>}
RetentionLimits == {0, 4096}

\* One limit of the stream, or one of a stream the database does not have.
NewLimits == {<<NewLimit(StreamId, limit)>> : limit \in RetentionLimits}
             \cup {<<NewLimit(StreamId + 1, 0)>>}
FailCounts == 0..MaxFaults

DoStartSyncer ==
    \E abandon_bad \in SUBSET list_files_to_abandon(disk, db),
       bad \in SUBSET (db.garbage_needs_unlink \cup RowIds(db.rows)),
       flush1_ok, sync_ok, flush2_ok \in BOOLEAN :
        StartSyncer(abandon_bad, flush1_ok, bad, sync_ok, flush2_ok)

DoLowerRetention ==
    \E limits \in NewLimits,
       abandon_bad \in SUBSET list_files_to_abandon(disk, db),
       bad \in SUBSET (db.garbage_needs_unlink \cup RowIds(db.rows)),
       flush1_ok, sync_ok, flush2_ok \in BOOLEAN :
        LowerRetention(limits, abandon_bad, flush1_ok, bad, sync_ok, flush2_ok)

DoWrite ==
    \E create_fails \in FailCounts, plan \in WritePlans :
        Write(<<7>>, NextPts.lo, NextPts, TRUE, create_fails, plan)

DoClose == \E next_pts \in {None, Some(NextPts)} : Close(next_pts)

DoDrop == \E panicking \in BOOLEAN : Drop(panicking)

DoIterSave == \E sync_fails, dir_fails \in FailCounts : IterSave(sync_fails, dir_fails)

DoGcUnlink == \E fails \in FailCounts : GcUnlink(fails)

DoIterTimeout == \E flush_ok \in BOOLEAN : IterTimeout(flush_ok)

Next ==
    \/ DoStartSyncer
    \/ DoLowerRetention
    \/ NewWriter
    \/ DoWrite
    \/ DoClose
    \/ DoDrop
    \/ DoIterSave
    \/ IterDatabaseFlushed
    \/ DoGcUnlink
    \/ GcDelete
    \/ DoIterTimeout
    \/ IterDisconnected
    \/ OtherFlush
    \/ DropChannel
    \/ ClearOnFlush

Spec == Init /\ [][Next]_vars

\* The system together with SyncerChannel::flush, which the tests use to
\* wait for the next planned flush.
NextF ==
    \/ Next
    \/ ChannelFlush
    \/ IterFlushCommand

\* The boot whose stream retains a block and a byte, so that a recording
\* saved meanwhile plans a deletion.
InitF == \E boot \in {b \in BootStates : b.db.retain_bytes # 0} : InitWith(boot)

SpecF == InitF /\ [][NextF]_vars

\* The Syncer's thread keeps running its loop (start_syncer's
\* `while syncer.iter(&rcv) {}`): a queued command is received and handled,
\* a garbage collection under way goes on, and, the clock advancing, a
\* receive with a timeout returns once the head's time has come.
SyncerRuns ==
    /\ WF_vars(DoIterSave)
    /\ WF_vars(IterDatabaseFlushed)
    /\ WF_vars(DoGcUnlink)
    /\ WF_vars(GcDelete)
    /\ WF_vars(DoIterTimeout)

\* The system while the command channel stays connected: no SyncerChannel
\* is dropped and the retention is left alone.
NextL ==
    \/ DoStartSyncer
    \/ NewWriter
    \/ DoWrite
    \/ DoClose
    \/ DoDrop
    \/ DoIterSave
    \/ IterDatabaseFlushed
    \/ DoGcUnlink
    \/ GcDelete
    \/ DoIterTimeout
    \/ OtherFlush

\* That system with a Syncer thread that is scheduled.  Flushes fail at most
\* MaxFaults times, hence succeed eventually.
SpecL == InitF /\ [][NextL]_vars /\ SyncerRuns

-----------------------------------------------------------------------------
(* The Writer alone, on a started Syncer that is not scheduled, with the   *)
(* timestamps, packets and file write results that exercise its checks.    *)

\* The state start_syncer leaves when nothing fails.
Started(boot) ==
    LET sn == Syncer_new(boot.disk, boot.db, {})
        d1 == delete_recordings(boot.db, 0)
        rot == do_rotation(d1, sn.disk, TRUE, {}, TRUE, TRUE)
    IN  [db |-> [rot.db EXCEPT !.on_flush = TRUE], disk |-> rot.disk,
         deleted |-> RowIds(d1.to_delete), gced |-> rot.gced, unlinked |-> rot.unlinked]

InitW ==
    \E boot \in BootStates :
      LET s == Started(boot)
      IN  /\ w = NoWriter
          /\ db = s.db
          /\ disk = s.disk
          /\ chan = [queue |-> <<>>, handle |-> TRUE]
          /\ syncer = [state |-> "idle", planned_flushes |-> {}, garbage |-> {}]
          /\ now = 0
          /\ hist = [sent |-> <<>>, live |-> <<>>, writes |-> 0, opened |-> {},
                     ended |-> {}, marked |-> {}, committed |-> RowIds(boot.db.rows)
                              \cup boot.db.garbage_needs_unlink,
                     deleted |-> s.deleted, gced |-> s.gced, unlinks |-> s.unlinked,
                     released |-> {}, gc |-> NoGc, pkts |-> <<>>,
                     samples |-> <<>>, yielded |-> <<>>, wrapped |-> FALSE,
                     last |-> [op |-> "start_syncer", res |-> TRUE, arg |-> <<>>,
                               failed |-> {}]]
          /\ budget = [faults |-> MaxFaults, other_flushes |-> MaxOtherFlushes,
                       flush_calls |-> MaxFlushCalls]
          /\ retry = NoRetry
          /\ iter = NoIterator
          /\ seg = NoSegment
          /\ thr = NoThreads

\* 0, 5 ticks, 1 s, one tick more than MAX_RECORDING_DURATION, and 2^32.
PtsW == {I64(0, 0), I64(0, 5), I64(0, TIME_UNITS_PER_SEC),
         I64(0, MAX_RECORDING_DURATION + 1), I64(4, 0)}
PktsW == {<<1>>, <<2, 3>>}
WritePlansW == {<<>>, <<0>>, <<1>>, <<0, 1>>, <<1, 0>>}

DoWriteW ==
    \E pkt \in PktsW, pts_90k \in PtsW, is_key \in BOOLEAN, plan \in WritePlansW :
        Write(pkt, pts_90k.lo, pts_90k, is_key, 0, plan)

DoCloseW == \E next_pts \in {None} \cup {Some(p) : p \in PtsW} : Close(next_pts)

NextW ==
    \/ NewWriter
    \/ DoWriteW
    \/ DoCloseW
    \/ DoDrop

SpecW == InitW /\ [][NextW]_vars

-----------------------------------------------------------------------------
(* Syncer::new alone, over the directories a crashed run may have left.    *)

MaxFileId == 4

\* Entries that are not sample files of the stream: two files of a stream
\* the directory does not hold and one whose name does not parse.
OtherNames == {Name(StreamId + 1, 1, TRUE), Name(StreamId + 1, MaxFileId + 1, TRUE),
               Name(StreamId, MaxFileId, FALSE)}

RowsOf(ids) == [k \in 1..Len(Ascending(ids)) |-> Row(Ascending(ids)[k], 1)]

InitA ==
    \E ids \in SUBSET (1..MaxFileId), others \in SUBSET OtherNames,
       next \in 2..MaxFileId :
      LET committed == {id \in ids : id < next}
      IN  InitWith([db |-> Database(RowsOf(committed), next, {}, 0, 1),
                    disk |-> [Directory([id \in ids |-> <<9>>], committed)
                                EXCEPT !.others = others]])

\* Syncer::new: the directory is listed (list_ok says whether opening and
\* reading it succeed) and the files to abandon are unlinked.
NewSyncer(list_ok, abandon_bad) ==
    /\ syncer.state = "new"
    /\ abandon_bad \subseteq list_files_to_abandon(disk, db)
    /\ Cardinality(abandon_bad) + (IF list_ok THEN 0 ELSE 1) <= budget.faults
    /\ \E sn \in {IF list_ok THEN Syncer_new(disk, db, abandon_bad)
                   ELSE [ok |-> FALSE, disk |-> disk]} :
         /\ disk' = sn.disk
         /\ syncer' = [syncer EXCEPT !.state = IF sn.ok THEN "constructed" ELSE "new"]
         /\ hist' = [hist EXCEPT !.last = [op |-> "Syncer::new", res |-> sn.ok,
                                           listed |-> list_ok, before |-> disk,
                                           bad |-> abandon_bad]]
    /\ budget' = [budget EXCEPT !.faults = @ - Cardinality(abandon_bad)
                                             - (IF list_ok THEN 0 ELSE 1)]
    /\ UNCHANGED <<w, db, chan, now, retry, iter, seg, thr>>

DoNewSyncer ==
    \E list_ok \in BOOLEAN, abandon_bad \in SUBSET list_files_to_abandon(disk, db) :
        NewSyncer(list_ok, abandon_bad)

NextA == DoNewSyncer

SpecA == InitA /\ [][NextA]_vars

-----------------------------------------------------------------------------
(* Retention alone: delete_recordings and lower_retention over the         *)
(* databases a stream may have.                                            *)

MaxRows == 3

\* Less than a block, exactly a block, a byte more than a block.
SampleFileBytes == {1, 4096, 4097}
RetainBytesD == {0, 4096, 8192}
ExtraBytesNeeded == {0, 1, 4096}

InitD ==
    \E n \in 0..MaxRows, retain_bytes \in RetainBytesD :
      \E bytes \in [1..n -> SampleFileBytes] :
        InitWith([db |-> Database([k \in 1..n |-> Row(k, bytes[k])], n + 1, {},
                                  retain_bytes, 1),
                  disk |-> Directory([id \in 1..n |-> <<9>>], 1..n)])

\* delete_recordings(db, stream_id, extra_bytes_needed) under the database
\* lock, as the closures of Syncer::save and start_syncer call it.
DeleteRecordings(extra_bytes_needed) ==
    /\ hist.last.op \in {"none", "delete_recordings"}
    /\ db' = delete_recordings(db, extra_bytes_needed)
    /\ hist' = [hist EXCEPT !.deleted = RowIds(db'.to_delete),
                            !.last = [op |-> "delete_recordings",
                                      extra |-> extra_bytes_needed, before |-> db]]
    /\ UNCHANGED <<w, chan, syncer, disk, now, budget, retry, iter, seg, thr>>

DoDeleteRecordings ==
    \E extra_bytes_needed \in ExtraBytesNeeded : DeleteRecordings(extra_bytes_needed)

NextD ==
    \/ DoDeleteRecordings
    \/ DoLowerRetention

SpecD == InitD /\ [][NextD]_vars

-----------------------------------------------------------------------------
(* clock::retry_forever on SimulatedClocks, called again and again with    *)
(* an operation that fails or succeeds as it likes.                        *)

\* Failures of the operation over all calls.
MaxRetryFailures == 4

\* What the operation returns when it succeeds.
RetryValues == {1, 2, 3}

Ok(t) == [ok |-> TRUE, v |-> t]
Err == [ok |-> FALSE, v |-> 0]

\* SimulatedClocks::sleep sleeping twice as long.
SimulatedClocks_sleep_Twice(uptime, how_long) == uptime + 2 * how_long

\* SimulatedClocks::sleep: the uptime afterwards.
SimulatedClocks_sleep(uptime, how_long) == uptime + how_long

\* retry_forever is called: it is about to call f.
RetryForever ==
    /\ retry.pc \in {"none", "returned"}
    /\ retry' = [pc |-> "call"]
    /\ hist' = [hist EXCEPT !.last = [op |-> "retry_forever", results |-> <<>>,
                                      sleeps |-> <<>>, start |-> now]]
    /\ UNCHANGED <<w, db, chan, syncer, disk, now, budget, iter, seg, thr>>

\* `match f()`: Ok(t) returns t, an error goes on to the sleep.
RetryCall(result) ==
    /\ retry.pc = "call"
    /\ ~result.ok => now < MaxRetryFailures * RetrySleep
    /\ retry' = IF result.ok THEN [pc |-> "returned", ret |-> result.v]
                            ELSE [pc |-> "sleep"]
    /\ hist' = [hist EXCEPT !.last.results = Append(@, result)]
    /\ UNCHANGED <<w, db, chan, syncer, disk, now, budget, iter, seg, thr>>

\* `clocks.sleep(sleep_time)`, then the loop starts over.
RetrySleeps ==
    /\ retry.pc = "sleep"
    /\ now' = SimulatedClocks_sleep(now, RetrySleep)
    /\ retry' = [pc |-> "call"]
    /\ hist' = [hist EXCEPT !.last.sleeps = Append(@, RetrySleep)]
    /\ UNCHANGED <<w, db, chan, syncer, disk, budget, iter, seg, thr>>

DoRetryCall == \E result \in {Err} \cup {Ok(t) : t \in RetryValues} : RetryCall(result)

NextR ==
    \/ RetryForever
    \/ DoRetryCall
    \/ RetrySleeps

SpecR == Init /\ [][NextR]_vars

-----------------------------------------------------------------------------
(* The sample index codec alone: SampleIndexEncoder::add_sample on the     *)
(* recording a Writer has just opened, then a SampleIndexIterator over the *)
(* index it produced.                                                      *)

MaxSamples == 3

\* A negative duration, zero, a usual one, the longest a recording may
\* have, the largest i32.
Durations == {-1, 0, 10, MAX_RECORDING_DURATION, I32_MAX}

\* One byte, more than a varint byte holds, 2^30 bytes.
SampleBytes == {1, 1000, Limb}

\* The Writer has opened a recording on a started Syncer: a fresh
\* RecordingToInsert and a new SampleIndexEncoder.
InitE ==
    \E boot \in {b \in BootStates : b.db.retain_bytes = 0} :
      LET s == Started(boot)
          o == Writer_open([NoWriter EXCEPT !.state = "Unopened"], s.db, s.disk)
      IN  /\ w = o.w
          /\ db = o.db
          /\ disk = o.disk
          /\ chan = [queue |-> <<>>, handle |-> TRUE]
          /\ syncer = [state |-> "idle", planned_flushes |-> {}, garbage |-> {}]
          /\ now = 0
          /\ hist = [sent |-> <<>>, live |-> <<>>, writes |-> 0,
                     opened |-> {o.w.inner.id},
                     ended |-> {}, marked |-> {}, committed |-> RowIds(boot.db.rows)
                              \cup boot.db.garbage_needs_unlink,
                     deleted |-> s.deleted, gced |-> s.gced, unlinks |-> s.unlinked,
                     released |-> {}, gc |-> NoGc, pkts |-> <<>>,
                     samples |-> <<>>, yielded |-> <<>>, wrapped |-> FALSE,
                     last |-> [op |-> "open"]]
          /\ budget = [faults |-> MaxFaults, other_flushes |-> MaxOtherFlushes,
                       flush_calls |-> MaxFlushCalls]
          /\ retry = NoRetry
          /\ iter = NoIterator
          /\ seg = NoSegment
          /\ thr = NoThreads

Sample(duration_90k, bytes, is_key, res) ==
    [duration_90k |-> duration_90k, bytes |-> bytes, is_key |-> is_key, res |-> res]

\* SampleIndexEncoder::add_sample(duration_90k, bytes, is_key, r) on the
\* open recording.  When an i32 operation overflows the call panics
\* (panics) or goes on with the wrapped value, as the build has it.
AddSample(duration_90k, bytes, is_key, panics) ==
    /\ w.state = "Open"
    /\ iter = NoIterator
    /\ Len(hist.samples) < MaxSamples
    /\ \E x \in {Encoder_add_sample(w.inner.e, db.uncommitted[RIdx(db, w.inner.id)],
                                     duration_90k, bytes, is_key)} :
         LET res == IF x.overflow /\ panics THEN "panic"
                    ELSE IF x.ok THEN "Ok" ELSE "Err"
         IN  /\ panics => (x.overflow /\ ~hist.wrapped)
             /\ w' = IF res = "panic" THEN [w EXCEPT !.state = "Panicked"]
                     ELSE [w EXCEPT !.inner.e = x.e]
             /\ db' = IF res = "panic" THEN db
                      ELSE [db EXCEPT !.uncommitted[RIdx(db, w.inner.id)] = x.r]
             /\ hist' = [hist EXCEPT
                           !.samples = Append(@, Sample(duration_90k, bytes, is_key, res)),
                           !.wrapped = @ \/ (x.overflow /\ ~panics),
                           !.last = [op |-> "add_sample", res |-> res,
                                     duration_90k |-> duration_90k,
                                     before |-> db.uncommitted[RIdx(db, w.inner.id)]
                                                  .duration_90k]]
    /\ UNCHANGED <<chan, syncer, disk, now, budget, retry, iter, seg, thr>>

\* SampleIndexIterator::new, to read the index written so far.
IteratorNew ==
    /\ w.state = "Open"
    /\ iter = NoIterator
    /\ hist.samples # <<>>
    /\ iter' = SampleIndexIterator_new
    /\ hist' = [hist EXCEPT !.last = [op |-> "SampleIndexIterator::new", res |-> "true"]]
    /\ UNCHANGED <<w, db, chan, syncer, disk, now, budget, retry, seg, thr>>

\* SampleIndexIterator::next(&r.video_index), called until it returns
\* false or an error.
IteratorNext(panics) ==
    /\ iter # NoIterator
    /\ hist.last.res = "true"
    /\ \E x \in {SampleIndexIterator_next(iter, db.uncommitted[RIdx(db, w.inner.id)]
                                                  .video_index)} :
         LET res == IF x.overflow /\ panics THEN "panic" ELSE x.res
         IN  /\ panics => (x.overflow /\ ~hist.wrapped)
             /\ iter' = IF res = "panic" THEN iter ELSE x.it
             /\ hist' = [hist EXCEPT
                           !.yielded = IF res = "true"
                                       THEN Append(@, Sample(x.it.duration_90k, x.it.bytes,
                                                             x.it.is_key, "Ok"))
                                       ELSE @,
                           !.wrapped = @ \/ (x.overflow /\ ~panics),
                           !.last = [op |-> "next", res |-> res]]
    /\ UNCHANGED <<w, db, chan, syncer, disk, now, budget, retry, seg, thr>>

DoAddSample ==
    \E duration_90k \in Durations, bytes \in SampleBytes, is_key, panics \in BOOLEAN :
        AddSample(duration_90k, bytes, is_key, panics)

DoIteratorNext == \E panics \in BOOLEAN : IteratorNext(panics)

NextE ==
    \/ DoAddSample
    \/ IteratorNew
    \/ DoIteratorNext

SpecE == InitE /\ [][NextE]_vars

-----------------------------------------------------------------------------
(* SampleIndexIterator::next on any index: what add_sample wrote for some  *)
(* samples, cut off after any number of bytes.                             *)

MaxIndexSamples == 2

\* A negative duration, zero, one whose varint takes two bytes.
IndexDurations == {-1, 0, 100}

\* No bytes, one byte, more than a varint byte holds, 2^30 bytes.
IndexBytes == {0, 1, 1000, Limb}

IndexSamples ==
    {Sample(duration_90k, bytes, is_key, "Ok") :
        duration_90k \in IndexDurations, bytes \in IndexBytes, is_key \in BOOLEAN}

IndexSeqs ==
    UNION {[1..n -> IndexSamples] : n \in 1..MaxIndexSamples}

\* The encoder and the recording after add_sample of each of samples.
RECURSIVE Encode(_)
Encode(samples) ==
    IF samples = <<>>
    THEN [e |-> SampleIndexEncoder_new, r |-> RecordingToInsert(0, 0)]
    ELSE LET Step(p, s) ==
                 LET x == Encoder_add_sample(p.e, p.r, s.duration_90k, s.bytes, s.is_key)
                 IN  [e |-> x.e, r |-> x.r]
         IN  Step(Encode(SubSeq(samples, 1, Len(samples) - 1)), samples[Len(samples)])

\* The index of samples.
IndexOf(samples) == Encode(samples).r.video_index

\* A recording is open whose index is the first len bytes of the index of
\* samples, and a new SampleIndexIterator is to read it.
InitI ==
    \E boot \in {b \in BootStates : b.db.retain_bytes = 0}, samples \in IndexSeqs :
      \E len \in 1..Len(IndexOf(samples)) :
        LET s == Started(boot)
            o == Writer_open([NoWriter EXCEPT !.state = "Unopened"], s.db, s.disk)
        IN  /\ w = o.w
            /\ db = [o.db EXCEPT !.uncommitted[RIdx(o.db, o.w.inner.id)].video_index =
                                    SubSeq(IndexOf(samples), 1, len)]
            /\ disk = o.disk
            /\ chan = [queue |-> <<>>, handle |-> TRUE]
            /\ syncer = [state |-> "idle", planned_flushes |-> {}, garbage |-> {}]
            /\ now = 0
            /\ hist = [sent |-> <<>>, live |-> <<>>, writes |-> 0,
                       opened |-> {o.w.inner.id},
                       ended |-> {}, marked |-> {}, committed |-> RowIds(boot.db.rows)
                                \cup boot.db.garbage_needs_unlink,
                       deleted |-> s.deleted, gced |-> s.gced, unlinks |-> s.unlinked,
                       released |-> {}, gc |-> NoGc, pkts |-> <<>>,
                       samples |-> samples, yielded |-> <<>>, wrapped |-> FALSE,
                       last |-> [op |-> "SampleIndexIterator::new", res |-> "true"]]
            /\ budget = [faults |-> MaxFaults, other_flushes |-> MaxOtherFlushes,
                         flush_calls |-> MaxFlushCalls]
            /\ retry = NoRetry
            /\ iter = SampleIndexIterator_new
            /\ seg = NoSegment
            /\ thr = NoThreads

NextI == DoIteratorNext

SpecI == InitI /\ [][NextI]_vars

-----------------------------------------------------------------------------
(* recording::Segment: Segment::new on a recording that add_sample wrote,  *)
(* for a desired range, then Segment::foreach.                             *)

MaxSegmentSamples == 3

SegmentDurations == {10, 20}
SegmentBytes == {1, 1000}

\* Up to MaxSegmentSamples samples of positive duration, the first a key
\* frame, and possibly a trailing one of duration zero; or the latter alone.
SegmentSeqs ==
    LET Positive == {Sample(d, bytes, is_key, "Ok") :
                        d \in SegmentDurations, bytes \in SegmentBytes, is_key \in BOOLEAN}
        Trailing == {<<>>} \cup {<<Sample(0, bytes, is_key, "Ok")>> :
                                     bytes \in SegmentBytes, is_key \in BOOLEAN}
        Body == UNION {[1..n -> Positive] : n \in 1..MaxSegmentSamples}
    IN  {b \o t : b \in {b \in Body : b[1].is_key}, t \in Trailing}
        \cup {<<Sample(0, bytes, TRUE, "Ok")>> : bytes \in SegmentBytes}

\* The recording being read.
Recording == db.uncommitted[RIdx(db, w.inner.id)]

\* The time at which sample k of samples ends and the next one starts.
RECURSIVE EndTime(_, _)
EndTime(samples, k) ==
    IF k = 0 THEN 0 ELSE EndTime(samples, k - 1) + samples[k].duration_90k

\* Times to start or end a desired range at: before the recording, every
\* frame's start and a time within the frame, the recording's end, after it.
RangePoints(samples) ==
    LET starts == {EndTime(samples, k) : k \in 0..Len(samples)}
    IN  {-1} \cup starts \cup {t + 5 : t \in starts}

\* The RecordingToInsert add_sample wrote for samples: marked TrailingZero
\* as close(None) marks it when the last sample has no duration, and still
\* Growing otherwise.
Written(samples) ==
    [Encode(samples).r EXCEPT
        !.flags = IF samples[Len(samples)].duration_90k = 0 THEN TrailingZero ELSE Growing]

\* A recording is open that holds what add_sample wrote for some samples.
InitS ==
    \E boot \in {b \in BootStates : b.db.retain_bytes = 0}, samples \in SegmentSeqs :
        LET s == Started(boot)
            o == Writer_open([NoWriter EXCEPT !.state = "Unopened"], s.db, s.disk)
        IN  /\ w = o.w
            /\ db = [o.db EXCEPT !.uncommitted[RIdx(o.db, o.w.inner.id)] = Written(samples)]
            /\ disk = o.disk
            /\ chan = [queue |-> <<>>, handle |-> TRUE]
            /\ syncer = [state |-> "idle", planned_flushes |-> {}, garbage |-> {}]
            /\ now = 0
            /\ hist = [sent |-> <<>>, live |-> <<>>, writes |-> 0,
                       opened |-> {o.w.inner.id},
                       ended |-> {}, marked |-> {}, committed |-> RowIds(boot.db.rows)
                                \cup boot.db.garbage_needs_unlink,
                       deleted |-> s.deleted, gced |-> s.gced, unlinks |-> s.unlinked,
                       released |-> {}, gc |-> NoGc, pkts |-> <<>>,
                       samples |-> samples, yielded |-> <<>>, wrapped |-> FALSE,
                       last |-> [op |-> "add_sample", res |-> "Ok"]]
            /\ budget = [faults |-> MaxFaults, other_flushes |-> MaxOtherFlushes,
                         flush_calls |-> MaxFlushCalls]
            /\ retry = NoRetry
            /\ iter = NoIterator
            /\ seg = NoSegment
            /\ thr = NoThreads

\* Segment::new(db, recording, start..end).
SegmentNew(start, end) ==
    /\ seg = NoSegment
    /\ \E x \in {Segment_new(Recording, start, end)} :
         /\ seg' = x
         /\ hist' = [hist EXCEPT !.last = [op |-> "Segment::new",
                                           res |-> IF x.ok THEN "Ok" ELSE x.err,
                                           start |-> start, end |-> end]]
    /\ UNCHANGED <<w, db, chan, syncer, disk, now, budget, retry, iter, thr>>

\* Segment::foreach(playback, f) on the Segment created.
SegmentForeach ==
    /\ seg # NoSegment
    /\ seg.ok
    /\ hist.last.op = "Segment::new"
    /\ \E x \in {Segment_foreach(seg, Recording.video_index)} :
         hist' = [hist EXCEPT !.yielded = x.frames,
                              !.last = [op |-> "foreach", res |-> x.res]]
    /\ UNCHANGED <<w, db, chan, syncer, disk, now, budget, retry, iter, seg, thr>>

DoSegmentNew ==
    \E start, end \in RangePoints(hist.samples) : SegmentNew(start, end)

NextS ==
    \/ DoSegmentNew
    \/ SegmentForeach

SpecS == InitS /\ [][NextS]_vars

-----------------------------------------------------------------------------
(* Segment::foreach on a playback that need not be the index the Segment   *)
(* was made for: the Segment is the one Segment::new makes for the whole   *)
(* of a recording row, the playback's video_index any index add_sample     *)
(* writes, the empty one and those starting with a non-key frame included. *)

MaxPlaybackSamples == 3

PlaybackSeqs ==
    UNION {[1..n -> {Sample(10, 1, is_key, "Ok") : is_key \in BOOLEAN}] :
               n \in 0..MaxPlaybackSamples}

InitP ==
    \E boot \in {b \in BootStates : b.db.retain_bytes = 0},
       row \in PlaybackSeqs, samples \in PlaybackSeqs :
        LET s == Started(boot)
            o == Writer_open([NoWriter EXCEPT !.state = "Unopened"], s.db, s.disk)
            recording == Encode(row).r
        IN  /\ w = o.w
            /\ db = [o.db EXCEPT !.uncommitted[RIdx(o.db, o.w.inner.id)] = Encode(samples).r]
            /\ disk = o.disk
            /\ chan = [queue |-> <<>>, handle |-> TRUE]
            /\ syncer = [state |-> "idle", planned_flushes |-> {}, garbage |-> {}]
            /\ now = 0
            /\ hist = [sent |-> <<>>, live |-> <<>>, writes |-> 0,
                       opened |-> {o.w.inner.id},
                       ended |-> {}, marked |-> {}, committed |-> RowIds(boot.db.rows)
                                \cup boot.db.garbage_needs_unlink,
                       deleted |-> s.deleted, gced |-> s.gced, unlinks |-> s.unlinked,
                       released |-> {}, gc |-> NoGc, pkts |-> <<>>,
                       samples |-> samples, yielded |-> <<>>, wrapped |-> FALSE,
                       last |-> [op |-> "Segment::new", res |-> "Ok",
                                 start |-> 0, end |-> recording.duration_90k]]
            /\ budget = [faults |-> MaxFaults, other_flushes |-> MaxOtherFlushes,
                         flush_calls |-> MaxFlushCalls]
            /\ retry = NoRetry
            /\ iter = NoIterator
            /\ seg = Segment_new(recording, 0, recording.duration_90k)
            /\ thr = NoThreads

NextP == SegmentForeach

SpecP == InitP /\ [][NextP]_vars

-----------------------------------------------------------------------------
(* The ClockAdjuster alone: a recording opened with some local_time_delta, *)
(* then adjust for one frame after another of FrameTicks each.             *)

MaxFrames == 3600

FrameTicks == 3000

\* Deltas that disable the adjustment, usual ones, those at the cap of the
\* rate and far beyond it, in both directions.
AdjusterDeltas ==
    LET d == {0, 10, 60, 61, 540, 1000, 2699, 2700, 1000000, 2000000000}
    IN  d \cup {-x : x \in d}

\* A recording is open whose ClockAdjuster was made for local_time_delta.
InitC ==
    \E boot \in {b \in BootStates : b.db.retain_bytes = 0},
       local_time_delta \in AdjusterDeltas :
        LET s == Started(boot)
            o == Writer_open([NoWriter EXCEPT !.state = "Unopened"], s.db, s.disk)
        IN  /\ w = [o.w EXCEPT !.inner.adjuster = ClockAdjuster_new(Some(local_time_delta))]
            /\ db = o.db
            /\ disk = o.disk
            /\ chan = [queue |-> <<>>, handle |-> TRUE]
            /\ syncer = [state |-> "idle", planned_flushes |-> {}, garbage |-> {}]
            /\ now = 0
            /\ hist = [sent |-> <<>>, live |-> <<>>, writes |-> 0,
                       opened |-> {o.w.inner.id},
                       ended |-> {}, marked |-> {}, committed |-> RowIds(boot.db.rows)
                                \cup boot.db.garbage_needs_unlink,
                       deleted |-> s.deleted, gced |-> s.gced, unlinks |-> s.unlinked,
                       released |-> {}, gc |-> NoGc, pkts |-> <<>>,
                       samples |-> <<>>, yielded |-> <<>>, wrapped |-> FALSE,
                       last |-> [op |-> "ClockAdjuster::new",
                                 local_time_delta |-> local_time_delta,
                                 frames |-> 0, total |-> 0, val |-> 0]]
            /\ budget = [faults |-> MaxFaults, other_flushes |-> MaxOtherFlushes,
                         flush_calls |-> MaxFlushCalls]
            /\ retry = NoRetry
            /\ iter = NoIterator
            /\ seg = NoSegment
            /\ thr = NoThreads

\* ClockAdjuster::adjust(val) for the next frame.
Adjust(val) ==
    /\ hist.last.frames < MaxFrames
    /\ \E x \in {adjust(w.inner.adjuster, val)} :
         /\ w' = [w EXCEPT !.inner.adjuster = x.adjuster]
         /\ hist' = [hist EXCEPT !.last = [@ EXCEPT !.op = "adjust",
                                                    !.frames = @ + 1,
                                                    !.total = @ + x.val,
                                                    !.val = x.val]]
    /\ UNCHANGED <<db, chan, syncer, disk, now, budget, retry, iter, seg, thr>>

NextC == Adjust(FrameTicks)

SpecC == InitC /\ [][NextC]_vars

-----------------------------------------------------------------------------
(* The threads at the database lock.  Each thread is followed through the  *)
(* places where it takes the lock (db.lock()), blocks (recv, the sleep of  *)
(* retry_forever) or sends; what the database holds is left open, so every *)
(* branch that depends on it is taken both ways.                           *)

\* The Syncer's thread, a thread that owns a Writer and the SyncerChannel,
\* and another holder of the database that flushes it.
Threads == {"syncer", "writer", "other"}

\* Where a thread stands once db.lock() has returned, by where it called it.
LockedAt ==
    [save_lock |-> "save_locked", gc_lock |-> "gc_locked",
     gc_delete_lock |-> "gc_delete_locked", flush_lock |-> "flush_locked",
     open_lock |-> "open_locked", live_lock |-> "live_locked",
     close_lock |-> "close_locked", clear_lock |-> "clear_locked"]

\* Where a thread goes after an I/O call made under retry_forever.
AfterIo ==
    [save_sync_all |-> "save_dir_sync", save_dir_sync |-> "save_lock",
     gc_unlink |-> "gc_dir_sync", gc_dir_sync |-> "gc_delete_lock",
     create_file |-> "write_file", write_file |-> "written"]

\* Where the Writer's thread goes when it lets go of the lock.
AfterUnlock ==
    [open_locked |-> "create_file", live_locked |-> "write_file",
     close_locked |-> "close_send", clear_locked |-> "done"]

\* The on-flush hook taking the database lock before it sends.
on_flush_hook_Relocks(q, t) ==
    [runs |-> q.lock = "none",
     cmds |-> IF q.hook THEN Append(q.cmds, "DatabaseFlushed") ELSE q.cmds]

\* The hook start_syncer registers, called by LockedDatabase::flush in
\* thread t under the lock: it sends DatabaseFlushed on the unbounded
\* channel (a failed send is only logged) and returns.
on_flush_hook(q, t) ==
    [runs |-> TRUE,
     cmds |-> IF q.hook THEN Append(q.cmds, "DatabaseFlushed") ELSE q.cmds]

\* The Syncer's thread still holds the receiver.
Receiving == thr.pc.syncer \notin {"exited", "panicked"}

\* db.lock() returns in thread t: nobody holds the lock.
Lock(t) ==
    /\ thr.pc[t] \in DOMAIN LockedAt
    /\ t \notin thr.asleep
    /\ thr.lock = "none"
    /\ thr' = [thr EXCEPT !.lock = t, !.pc[t] = LockedAt[thr.pc[t]]]
    /\ UNCHANGED <<w, db, chan, syncer, disk, now, hist, budget, retry, iter, seg>>

\* One attempt of an I/O call under retry_forever in thread t: on success
\* the thread goes on, on an error it sleeps.
Io(t, ok) ==
    /\ thr.pc[t] \in DOMAIN AfterIo
    /\ t \notin thr.asleep
    /\ ok \/ thr.faults > 0
    /\ thr' = IF ok THEN [thr EXCEPT !.pc[t] = AfterIo[thr.pc[t]]]
              ELSE [thr EXCEPT !.asleep = @ \cup {t}, !.faults = @ - 1]
    /\ UNCHANGED <<w, db, chan, syncer, disk, now, hist, budget, retry, iter, seg>>

\* The sleep of retry_forever returns in thread t.
Wake(t) ==
    /\ t \in thr.asleep
    /\ thr' = [thr EXCEPT !.asleep = @ \ {t}]
    /\ UNCHANGED <<w, db, chan, syncer, disk, now, hist, budget, retry, iter, seg>>

\* Syncer::iter's receive returns: a command, a timeout when a flush is
\* planned, or the disconnection once every sender is gone.
SyncerRecv ==
    /\ thr.pc.syncer = "recv"
    /\ \/ /\ thr.cmds # <<>>
          /\ thr' = [thr EXCEPT !.cmds = Tail(@),
                                !.pc.syncer = IF Head(thr.cmds) = "AsyncSaveRecording"
                                              THEN "save_sync_all" ELSE "gc_lock"]
       \/ /\ thr.cmds = <<>>
          /\ thr.senders \/ thr.hook
          /\ thr.planned > 0
          /\ thr' = [thr EXCEPT !.pc.syncer = "flush_lock"]
       \/ /\ thr.cmds = <<>>
          /\ ~(thr.senders \/ thr.hook)
          /\ thr' = [thr EXCEPT !.pc.syncer = "exited"]
    /\ UNCHANGED <<w, db, chan, syncer, disk, now, hist, budget, retry, iter, seg>>

\* Syncer::save under the lock: mark_synced (whose error panics the
\* thread, the guard being dropped on the way), delete_recordings, the
\* planned flush; the guard is dropped when save returns.
SyncerSave(panics) ==
    /\ thr.pc.syncer = "save_locked"
    /\ thr' = IF panics
              THEN [thr EXCEPT !.lock = "none", !.pc.syncer = "panicked"]
              ELSE [thr EXCEPT !.lock = "none", !.pc.syncer = "recv",
                               !.planned = @ + 1]
    /\ UNCHANGED <<w, db, chan, syncer, disk, now, hist, budget, retry, iter, seg>>

\* collect_garbage reads garbage_needs_unlink under the lock and drops the
\* guard at the end of the block.
SyncerGcRead(empty) ==
    /\ thr.pc.syncer = "gc_locked"
    /\ thr' = [thr EXCEPT !.lock = "none",
                          !.pc.syncer = IF empty THEN "recv" ELSE "gc_unlink"]
    /\ UNCHANGED <<w, db, chan, syncer, disk, now, hist, budget, retry, iter, seg>>

\* collect_garbage's last retry_forever: the closure locks, calls
\* delete_garbage and drops the guard as it returns; on an error the
\* thread then sleeps and locks again.
SyncerGcDelete(ok) ==
    /\ thr.pc.syncer = "gc_delete_locked"
    /\ ok \/ thr.faults > 0
    /\ thr' = IF ok THEN [thr EXCEPT !.lock = "none", !.pc.syncer = "recv"]
              ELSE [thr EXCEPT !.lock = "none", !.pc.syncer = "gc_delete_lock",
                               !.asleep = @ \cup {"syncer"}, !.faults = @ - 1]
    /\ UNCHANGED <<w, db, chan, syncer, disk, now, hist, budget, retry, iter, seg>>

\* Syncer::flush under the lock: left planned flushes remain after the
\* opening loop; it returns when none is due, reschedules after a failed
\* flush, and after a successful one is inside LockedDatabase::flush,
\* which calls the hook.
SyncerFlush(left, did) ==
    /\ thr.pc.syncer = "flush_locked"
    /\ left <= thr.planned
    /\ did = "not_due" \/ left > 0
    /\ did = "flush_failed" => thr.faults > 0
    /\ thr' = CASE did = "not_due" ->
                     [thr EXCEPT !.lock = "none", !.pc.syncer = "recv", !.planned = left]
                [] did = "flush_failed" ->
                     [thr EXCEPT !.lock = "none", !.pc.syncer = "recv", !.planned = left,
                                 !.faults = @ - 1]
                [] did = "flushed" ->
                     [thr EXCEPT !.pc.syncer = "flush_hook", !.planned = left]
    /\ UNCHANGED <<w, db, chan, syncer, disk, now, hist, budget, retry, iter, seg>>

\* The hook returns to LockedDatabase::flush in thread t, flush returns and
\* the guard is dropped; the Syncer clears its heap before that.
HookReturns(t) ==
    /\ thr.pc[t] = "flush_hook"
    /\ LET h == on_flush_hook(thr, t)
       IN  /\ h.runs
           /\ thr' = [thr EXCEPT !.cmds = h.cmds, !.lock = "none",
                                 !.pc[t] = IF t = "syncer" THEN "recv" ELSE "idle",
                                 !.planned = IF t = "syncer" THEN 0 ELSE @]
    /\ UNCHANGED <<w, db, chan, syncer, disk, now, hist, budget, retry, iter, seg>>

\* The Writer's thread decides what to do next: open a recording with the
\* first frame, end a live segment at a key frame, close the recording, or
\* drop the SyncerChannel and then clear the hook.
WriterGoes(to) ==
    /\ \/ thr.pc.writer = "idle" /\ thr.senders /\ thr.recs > 0 /\ to = "open_lock"
       \/ thr.pc.writer = "idle" /\ thr.senders /\ to = "clear_lock"
       \/ thr.pc.writer = "written" /\ to \in {"live_lock", "close_lock"}
    /\ thr' = [thr EXCEPT !.pc.writer = to,
                          !.recs = IF to = "open_lock" THEN @ - 1 ELSE @,
                          !.senders = to # "clear_lock"]
    /\ UNCHANGED <<w, db, chan, syncer, disk, now, hist, budget, retry, iter, seg>>

\* The Writer's thread is done with the database (add_recording,
\* send_live_segment, clear_on_flush) and the guard is dropped.
WriterUnlock ==
    /\ thr.pc.writer \in DOMAIN AfterUnlock
    /\ thr' = [thr EXCEPT !.lock = "none", !.pc.writer = AfterUnlock[thr.pc.writer],
                          !.hook = @ /\ thr.pc.writer # "clear_locked"]
    /\ UNCHANGED <<w, db, chan, syncer, disk, now, hist, budget, retry, iter, seg>>

\* async_save_recording: the send on the unbounded channel, unwrapped, so
\* that the Writer's thread panics when the receiver is gone.
WriterSend ==
    /\ thr.pc.writer = "close_send"
    /\ thr' = IF Receiving
              THEN [thr EXCEPT !.cmds = Append(@, "AsyncSaveRecording"),
                               !.pc.writer = "idle"]
              ELSE [thr EXCEPT !.pc.writer = "panicked", !.senders = FALSE]
    /\ UNCHANGED <<w, db, chan, syncer, disk, now, hist, budget, retry, iter, seg>>

\* Another holder of the database starts a flush.
OtherLocks ==
    /\ thr.pc.other = "idle"
    /\ thr.flushes > 0
    /\ thr' = [thr EXCEPT !.pc.other = "flush_lock", !.flushes = @ - 1]
    /\ UNCHANGED <<w, db, chan, syncer, disk, now, hist, budget, retry, iter, seg>>

\* Its LockedDatabase::flush fails and returns, or succeeds and calls the hook.
OtherFlushes(ok) ==
    /\ thr.pc.other = "flush_locked"
    /\ thr' = IF ok THEN [thr EXCEPT !.pc.other = "flush_hook"]
              ELSE [thr EXCEPT !.lock = "none", !.pc.other = "idle"]
    /\ UNCHANGED <<w, db, chan, syncer, disk, now, hist, budget, retry, iter, seg>>

\* After start_syncer: the hook is registered, the Syncer's thread is in
\* its first receive, nobody holds the lock.
InitK ==
    /\ InitOf(CHOOSE boot \in BootStates : boot.db.retain_bytes = 0)
    /\ thr = [lock |-> "none",
              pc |-> [syncer |-> "recv", writer |-> "idle", other |-> "idle"],
              asleep |-> {}, cmds |-> <<>>, planned |-> 0, hook |-> TRUE,
              senders |-> TRUE, recs |-> MaxRecordings, flushes |-> MaxOtherFlushes,
              faults |-> MaxFaults]

NextK ==
    \/ \E t \in Threads : Lock(t)
    \/ \E t \in Threads, ok \in BOOLEAN : Io(t, ok)
    \/ \E t \in Threads : Wake(t)
    \/ SyncerRecv
    \/ \E panics \in BOOLEAN : SyncerSave(panics)
    \/ \E empty \in BOOLEAN : SyncerGcRead(empty)
    \/ \E ok \in BOOLEAN : SyncerGcDelete(ok)
    \/ \E left \in 0..MaxRecordings, did \in {"not_due", "flush_failed", "flushed"} :
          SyncerFlush(left, did)
    \/ \E t \in Threads : HookReturns(t)
    \/ \E to \in {"open_lock", "clear_lock", "live_lock", "close_lock"} : WriterGoes(to)
    \/ WriterUnlock
    \/ WriterSend
    \/ OtherLocks
    \/ \E ok \in BOOLEAN : OtherFlushes(ok)

SpecK == InitK /\ [][NextK]_vars

-----------------------------------------------------------------------------
(* Properties. *)

\* The ids of the recordings added and not yet committed.
UncommittedIds(d) == {d.next_recording_id + k - 1 : k \in 1..Len(d.uncommitted)}

RowExists(id) == id \in RowIds(db.rows) \cup UncommittedIds(db)

\* C1: a recording is marked synced, and so can be committed by a metadata
\* flush, only after its file and then the directory were fsynced: the file
\* of every synced or committed recording is durable.
C1_DurableBeforeSynced ==
    \A id \in Committing(db) \cup RowIds(db.rows) : id \in disk.durable

\* A save that had to retry an fsync has just marked its recording synced.
C1_Witness ==
    /\ hist.last.op = "iter"
    /\ hist.last.res = "save"
    /\ hist.last.retries > 0
    /\ hist.last.id \in Committing(db) \cap disk.durable

\* C2: an id is moved from garbage_needs_unlink to garbage_unlinked, by
\* collect_garbage or by do_rotation, only after its file was unlinked (or
\* found absent) and the directory was fsynced after that.
C2_UnlinkedSyncedBeforeForgotten ==
    /\ (hist.gced \cup db.garbage_unlinked) \subseteq disk.unlink_durable
    /\ hist.gced \cap DOMAIN disk.files = {}

\* do_rotation collected the garbage found at start and collect_garbage has
\* just moved a later id.
C2_Witness ==
    /\ hist.last.op = "gc"
    /\ hist.last.res = "deleted"
    /\ db.garbage_unlinked # {}
    /\ hist.gced \ db.garbage_unlinked # {}

\* C3: only committed recordings are chosen for retention deletion; the
\* recordings added and not yet committed are never chosen.
C3_OnlyCommittedDeleted ==
    /\ RowIds(db.to_delete) \cup hist.deleted \subseteq hist.committed
    /\ (db.garbage_needs_unlink \cup db.garbage_unlinked) \subseteq hist.committed
    /\ UncommittedIds(db) \cap (hist.deleted \cup db.garbage_needs_unlink) = {}

\* With retain_bytes = 0, the retention pass of a save chose an older
\* recording and spared the one being saved.
C3_Witness ==
    /\ hist.last.op = "iter"
    /\ hist.last.res = "save"
    /\ db.retain_bytes = 0
    /\ hist.last.id \in Committing(db) \ hist.deleted
    /\ RowIds(db.to_delete) \cap hist.opened # {}

\* C4 as stated: once the syncer has started, a file exists if and only if
\* its row exists and it is not in garbage_unlinked, or it is in
\* garbage_needs_unlink.
C4_FileIffRowOrGarbage ==
    Running =>
        \A id \in 1..NextId(db) \cup DOMAIN disk.files :
            id \in DOMAIN disk.files
            <=> \/ RowExists(id) /\ id \notin db.garbage_unlinked
                \/ id \in db.garbage_needs_unlink

\* C4, the direction that holds: once the syncer has started, a file exists
\* only if its row exists and it is not in garbage_unlinked, or it is in
\* garbage_needs_unlink.
C4_FileOnlyIfRowOrGarbage ==
    Running =>
        \A id \in DOMAIN disk.files :
            \/ RowExists(id) /\ id \notin db.garbage_unlinked
            \/ id \in db.garbage_needs_unlink

\* collect_garbage has unlinked a file and not yet called delete_garbage.
C4_Witness ==
    /\ syncer.state = "gc_delete"
    /\ db.garbage_needs_unlink \ DOMAIN disk.files # {}
    /\ DOMAIN disk.files # {}

\* C5: whenever the writer is Open between calls, so after every return of
\* Writer::write with Ok or Err, the open recording holds an unflushed
\* sample.
C5_UnflushedSampleIsSome == w.state = "Open" => w.inner.unflushed_sample.some

\* Writer::write has just returned an error from add_sample.
C5_Witness ==
    /\ hist.last.op = "write"
    /\ hist.last.res = "ErrAddSample"
    /\ w.state = "Open"
    /\ w.inner.unflushed_sample.some

\* C6 as stated: a write with pts_90k at or below the pts of the held
\* sample returns the pts error and changes nothing.
C6_NonMonotonicPtsRejected ==
    [][(/\ hist'.writes = hist.writes + 1
        /\ w.state = "Open"
        /\ I64Le(hist'.last.pts_90k, w.inner.unflushed_sample.v.pts_90k))
       => (/\ hist'.last.res = "ErrPts"
           /\ w' = w /\ db' = db /\ disk' = disk /\ chan' = chan
           /\ hist'.live = hist.live /\ now' = now)]_vars

\* C7 as stated, for writers closed or dropped outside a panic: the
\* recording that was open is sent to the Syncer exactly once.
C7_EveryRecordingSent ==
    \A e \in hist.ended :
        e.how # "drop_panicking"
        => Cardinality({k \in 1..Len(hist.sent) : hist.sent[k].id = e.id}) = 1

\* C8 as stated: the Syncer's loop exits only with an empty heap.
C8_ExitsWithEmptyHeap == syncer.state = "exited" => syncer.planned_flushes = {}

\* C8, what holds: the loop exits only when every sender is gone and
\* every queued command was processed; each recording sent was saved.  The
\* heap may still hold planned flushes.
C8_ExitsDisconnectedAndDrained ==
    syncer.state = "exited"
    => /\ ~Connected
       /\ chan.queue = <<>>
       /\ {hist.sent[k].id : k \in 1..Len(hist.sent)} \subseteq hist.marked

\* The loop has exited after saving a recording whose planned flush is
\* still in the heap.
C8_Witness ==
    /\ syncer.state = "exited"
    /\ syncer.planned_flushes # {}
    /\ \A f \in syncer.planned_flushes : f.recording \in hist.marked

\* C9: when the metadata flush of Syncer::flush succeeds, the heap is empty
\* afterwards and exactly one flush was performed in that tick.
C9_OneFlushClearsHeap ==
    (hist.last.op = "iter" /\ hist.last.res = "flushed")
    => /\ syncer.planned_flushes = {}
       /\ hist.last.flushes = 1

\* A flush has just succeeded with two planned flushes queued.
C9_Witness ==
    /\ hist.last.op = "iter"
    /\ hist.last.res = "flushed"
    /\ Cardinality(hist.last.before) >= 2
    /\ syncer.planned_flushes = {}

\* C10: a timeout that ends without an attempt to flush popped only entries
\* of committed recordings, left the heap empty or with a head that is not
\* committed and not due, and performed no metadata flush.
C10_NoFlushUnlessDue ==
    (hist.last.op = "iter" /\ hist.last.res \in {"nothing_planned", "not_due"})
    => /\ hist.last.flushes = 0
       /\ syncer.planned_flushes \subseteq hist.last.before
       /\ \A f \in hist.last.before \ syncer.planned_flushes :
              f.recording < db.next_recording_id
       /\ hist.last.res = "nothing_planned" => syncer.planned_flushes = {}
       /\ hist.last.res = "not_due"
          => \E f \in Peeks(syncer.planned_flushes) :
                 f.recording >= db.next_recording_id /\ f.when > now

\* A timeout has popped a committed entry and stopped at one not yet due.
C10_Witness ==
    /\ hist.last.op = "iter"
    /\ hist.last.res = "not_due"
    /\ hist.last.before \ syncer.planned_flushes # {}
    /\ syncer.planned_flushes # {}

\* Number of successful garbage unlinks of the file id.
UnlinkCount(id) == Cardinality({k \in 1..Len(hist.unlinks) : hist.unlinks[k] = id})

\* The ids that ever had a file: those present at boot and those opened.
EverFiles == hist.opened \cup UNION {DOMAIN boot.disk.files : boot \in BootStates}

\* A step of collect_garbage's delete_garbage.
GcDeleteStep == syncer.state = "gc_delete" /\ syncer'.state = "idle"

\* A step that handles DatabaseFlushed.
DatabaseFlushedStep ==
    /\ syncer.state = "idle"
    /\ chan.queue # <<>>
    /\ Head(chan.queue).type = "DatabaseFlushed"
    /\ chan'.queue = Tail(chan.queue)

\* A metadata flush while the Syncer is between commands.
FlushStep == syncer.state = "idle" /\ syncer'.state = "idle" /\ db'.flushes = db.flushes + 1

C12_AbandonsPastNext ==
    hist.last.op = "Syncer::new" =>
        /\ hist.last.res => \A id \in DOMAIN disk.files : id < db.next_recording_id
        /\ disk.others = hist.last.before.others
        /\ \A id \in DOMAIN hist.last.before.files :
               id < db.next_recording_id
               => id \in DOMAIN disk.files /\ disk.files[id] = hist.last.before.files[id]
        /\ DOMAIN disk.files \subseteq DOMAIN hist.last.before.files
        /\ hist.last.bad # {} => ~hist.last.res

\* Syncer::new succeeded on a directory that held a file at
\* next_recording_id, a file past it, a committed file, a file of another
\* stream past its id and an entry whose name does not parse.
C12_Witness ==
    /\ hist.last.op = "Syncer::new"
    /\ hist.last.res
    /\ {db.next_recording_id, db.next_recording_id + 1}
         \subseteq DOMAIN hist.last.before.files
    /\ \E id \in DOMAIN disk.files : id < db.next_recording_id
    /\ Name(StreamId + 1, MaxFileId + 1, TRUE) \in disk.others
    /\ \E e \in disk.others : ~e.valid

\* The rows delete_recordings added to to_delete, given the database before.
Chosen(before, after) ==
    SubSeq(after.to_delete, Len(before.to_delete) + 1, Len(after.to_delete))

\* fs_bytes_needed of delete_recordings on database d.
Need(d, extra) ==
    d.fs_bytes + d.fs_bytes_to_add - d.fs_bytes_to_delete + extra - d.retain_bytes

\* The length of the shortest prefix of rows whose rounded-up total
\* reaches need, or Len(rows) if none does.
ShortestPrefix(rows, need) ==
    LET ks == {k \in 0..Len(rows) : SumFsBytes(SubSeq(rows, 1, k)) >= need}
    IN  IF ks = {} THEN Len(rows) ELSE CHOOSE k \in ks : \A j \in ks : k <= j

\* C13: delete_recordings selects nothing when need <= 0; otherwise it
\* selects the shortest oldest-first prefix of the stream's committed
\* recordings whose rounded-up total is >= need (all of them if their total
\* is smaller): no recording is selected once the total has reached need.
C13_ShortestPrefixReachingNeed ==
    hist.last.op = "delete_recordings" =>
        LET before == hist.last.before
            need == Need(before, hist.last.extra)
            cands == DeletionCandidates(before)
            n == IF need <= 0 THEN 0 ELSE ShortestPrefix(cands, need)
        IN  Chosen(before, db) = SubSeq(cands, 1, n)

\* The database's projected usage of the stream.
ProjectedUsage(d) == d.fs_bytes + d.fs_bytes_to_add - d.fs_bytes_to_delete

\* A step of lower_retention.
LowerRetentionStep == hist.last = NoCall /\ hist'.last.op = "lower_retention"

\* C14: lower_retention with limit L never changes retain_bytes; when L is
\* at least the stream's projected usage it deletes nothing; otherwise it
\* deletes the oldest recordings until the projected usage is <= L, which
\* with L = 0 is all committed recordings; a limit of an unknown stream is
\* an error.
C14_LowersUsageToLimit ==
    [][LowerRetentionStep =>
         LET l == hist'.last.arg[1]
             excess == ProjectedUsage(db) - l.limit
             kept == SubSeq(db.rows, ShortestPrefix(db.rows, excess) + 1, Len(db.rows))
         IN  /\ db'.retain_bytes = db.retain_bytes
             /\ l.stream_id # StreamId => (~hist'.last.res /\ db'.rows = db.rows)
             /\ (l.stream_id = StreamId /\ hist'.last.res) =>
                   /\ db'.rows = IF excess <= 0 THEN db.rows ELSE kept
                   /\ ProjectedUsage(db') <= Max(l.limit, 0)
                   /\ l.limit = 0 => db'.rows = <<>>]_vars

\* C15: the bytes the sample file of a recording has accepted are the
\* concatenation, in order, of the packets of the Writer::write calls on
\* it, whatever write errors and short writes FileWriter::write returned.
C15_FileIsPacketsInOrder ==
    \A id \in DOMAIN hist.pkts : id \in DOMAIN disk.files /\ disk.files[id] = hist.pkts[id]

\* A two-byte packet was written after a one-byte packet of the same
\* recording, and a failed file write was retried.
C15_Witness ==
    /\ hist.last.op = "write"
    /\ hist.last.res = "Ok"
    /\ budget.faults < MaxFaults
    /\ \E id \in DOMAIN hist.pkts : hist.pkts[id] = <<1, 2, 3>>

\* A step that drops the Writer.
DropStep == w.state # "Dropped" /\ w'.state = "Dropped"

\* C16: dropping an Open Writer outside a panic does to the database, the
\* channel and the live segments what close(None) does: the held sample is
\* appended with duration adjust(0), the recording is flagged TrailingZero
\* and sent to the Syncer; dropping a Writer that is not Open, or in a
\* panic, sends nothing and changes nothing.
C16_DropIsCloseNone ==
    [][DropStep =>
         IF w.state = "Open" /\ [id |-> w.inner.id, how |-> "drop"] \in hist'.ended
         THEN LET c == Writer_close(w, db, None)
                  i == RIdx(db, w.inner.id)
                  held == w.inner.unflushed_sample.v
              IN  /\ db' = c.db
                  /\ chan' = Send(OptSeq(c.cmd))
                  /\ hist'.live = hist.live \o c.live
                  /\ c.cmd.some /\ c.cmd.v.id = w.inner.id
                  /\ db'.uncommitted[i].flags = TrailingZero
                  /\ db'.uncommitted[i].video_samples = db.uncommitted[i].video_samples + 1
                  /\ db'.uncommitted[i].sample_file_bytes
                       = db.uncommitted[i].sample_file_bytes + held.len
                  /\ db'.uncommitted[i].duration_90k
                       = db.uncommitted[i].duration_90k + adjust(w.inner.adjuster, 0).val
         ELSE chan' = chan /\ db' = db /\ hist'.live = hist.live]_vars

\* An Open Writer that had flushed a sample was dropped outside a panic and
\* its recording is queued for the Syncer.
C16_Witness ==
    /\ hist.last.op = "drop"
    /\ w.state = "Dropped"
    /\ \E e \in hist.ended :
         /\ e.how = "drop"
         /\ chan.queue # <<>>
         /\ chan.queue[Len(chan.queue)].id = e.id
         /\ \E k \in 1..Len(db.uncommitted) :
                /\ db.uncommitted[k].flags = TrailingZero
                /\ db.uncommitted[k].video_samples = 2

\* The number of failures among results.
Failures(results) == Cardinality({k \in 1..Len(results) : ~results[k].ok})

\* C17: when retry_forever returns, the operation failed k times and then
\* succeeded: it was called k + 1 times, the clock slept k times for one
\* second each and its monotonic time is k seconds later, and the value
\* returned is that of the one success; while the operation has only
\* failed, retry_forever has not returned.
C17_RetriesUntilFirstSuccess ==
    hist.last.op = "retry_forever" =>
        LET results == hist.last.results
            k == Failures(results)
        IN  /\ retry.pc = "returned"
               <=> (results # <<>> /\ results[Len(results)].ok)
            /\ retry.pc = "returned" =>
                  /\ Len(results) = k + 1
                  /\ retry.ret = results[k + 1].v
                  /\ Len(hist.last.sleeps) = k
                  /\ \A i \in 1..k : hist.last.sleeps[i] = TIME_UNITS_PER_SEC
                  /\ now = hist.last.start + k * TIME_UNITS_PER_SEC
            /\ retry.pc # "returned" => \A i \in 1..Len(results) : ~results[i].ok

\* retry_forever returned after the operation failed twice.
C17_Witness ==
    /\ hist.last.op = "retry_forever"
    /\ retry.pc = "returned"
    /\ Failures(hist.last.results) = 2
    /\ retry.ret = 3

\* The exact sum of the i32s of seq, as [v, carry]: v + carry * 2^32.
RECURSIVE Total(_)
Total(seq) ==
    IF seq = <<>> THEN [v |-> 0, carry |-> 0]
    ELSE LET t == Total(SubSeq(seq, 1, Len(seq) - 1))
             a == AddI32(t.v, seq[Len(seq)])
         IN  [v |-> a.v, carry |-> t.carry + a.carry]

\* The exact sum is x, which is an i32.
TotalIs(seq, x) == Total(seq).carry = 0 /\ Total(seq).v = x

DurationsOf(samples) == [k \in 1..Len(samples) |-> samples[k].duration_90k]
BytesOf(samples) == [k \in 1..Len(samples) |-> samples[k].bytes]
KeysOf(samples) == {k \in 1..Len(samples) : samples[k].is_key}

\* Every add_sample call so far returned Ok.
AllOk == \A k \in 1..Len(hist.samples) : hist.samples[k].res = "Ok"

\* The iterator has stopped: next returned false or an error.
Iterated == hist.last.op = "next" /\ hist.last.res # "true"

\* C18 as stated: for every sequence of samples with positive bytes whose
\* cumulative durations are not negative, the iterator over the index that
\* add_sample produced yields exactly the samples, in order, and then
\* returns false.
C18_RoundTrip ==
    (/\ Iterated
     /\ AllOk
     /\ \A k \in 1..Len(hist.samples) :
           /\ hist.samples[k].bytes > 0
           /\ LET t == Total(SubSeq(DurationsOf(hist.samples), 1, k))
              IN  t.carry > 0 \/ (t.carry = 0 /\ t.v >= 0))
    => (hist.yielded = hist.samples /\ hist.last.res = "false")

\* C18, what holds: the same when moreover no duration is negative, only
\* the last may be zero, the durations total at most
\* MAX_RECORDING_DURATION and the bytes total fits an i32.
C18_RoundTripOfPositiveDurations ==
    (/\ Iterated
     /\ \A k \in 1..Len(hist.samples) :
           /\ hist.samples[k].bytes > 0
           /\ hist.samples[k].duration_90k >= 0
           /\ hist.samples[k].duration_90k = 0 => k = Len(hist.samples)
     /\ Total(DurationsOf(hist.samples)).carry = 0
     /\ Total(DurationsOf(hist.samples)).v <= MAX_RECORDING_DURATION
     /\ Total(BytesOf(hist.samples)).carry = 0)
    => (AllOk /\ hist.yielded = hist.samples /\ hist.last.res = "false")

\* Three samples, key and not, of one byte and of a thousand, the last of
\* duration zero, were encoded and read back to the end.
C18_Witness ==
    /\ Iterated
    /\ hist.last.res = "false"
    /\ hist.yielded = <<Sample(10, 1000, TRUE, "Ok"), Sample(10, 1, FALSE, "Ok"),
                        Sample(0, 1000, FALSE, "Ok")>>

\* C19: add_sample returns an error whenever the sample would take the
\* recording's cumulative duration past MAX_RECORDING_DURATION, and after
\* every call, successful or failed, duration_90k is at most
\* MAX_RECORDING_DURATION.
C19_DurationCapped ==
    hist.last.op = "add_sample" =>
        LET total == AddI32(hist.last.before, hist.last.duration_90k)
        IN  /\ (total.carry > 0 \/ (total.carry = 0 /\ total.v > MAX_RECORDING_DURATION))
               => hist.last.res = "Err"
            /\ db.uncommitted[RIdx(db, w.inner.id)].duration_90k <= MAX_RECORDING_DURATION

\* C20: after add_sample calls that all succeeded on a fresh
\* RecordingToInsert, sample_file_bytes is the sum of the samples' bytes,
\* video_samples their number, video_sync_samples the number of key
\* samples and duration_90k the sum of their durations; and when
\* video_index has been decoded to its end, the totals decoded are the
\* same.
C20_TotalsMatchSamples ==
    (AllOk /\ hist.samples # <<>>) =>
        LET r == db.uncommitted[RIdx(db, w.inner.id)]
        IN  /\ TotalIs(BytesOf(hist.samples), r.sample_file_bytes)
            /\ r.video_samples = Len(hist.samples)
            /\ r.video_sync_samples = Cardinality(KeysOf(hist.samples))
            /\ TotalIs(DurationsOf(hist.samples), r.duration_90k)
            /\ (Iterated /\ hist.last.res = "false") =>
                  /\ iter.pos = r.sample_file_bytes
                  /\ iter.start_90k = r.duration_90k
                  /\ Len(hist.yielded) = r.video_samples
                  /\ Cardinality(KeysOf(hist.yielded)) = r.video_sync_samples

\* The index being read.
Index == db.uncommitted[RIdx(db, w.inner.id)].video_index

\* The offset in the index of samples at which sample k ends.
EndOf(samples, k) == Len(IndexOf(SubSeq(samples, 1, k)))

\* The errors of SampleIndexIterator::next.
IteratorErrors ==
    {"bad varint 1", "bad varint 2", "negative duration",
     "zero duration only allowed at end", "non-positive bytes"}

\* C21: the last call of next was for sample k of the index.  It returned
\* Ok(false) exactly when the index ended where sample k would begin; a
\* sample it returned Ok(true) for is the one written, has bytes > 0 and
\* duration_90k >= 0, and has duration_90k = 0 only when the index ends
\* after it; and it returned an error when the index ends inside sample k
\* (a malformed varint), when the duration is negative, when it is zero
\* and bytes follow, and when bytes is not positive.
C21_IteratorChecksEverySample ==
    hist.last.op = "next" =>
        LET Checked(k, n, res) ==
                LET begin == EndOf(hist.samples, k - 1)
                    end == EndOf(hist.samples, k)
                    s == hist.samples[k]
                IN  /\ res = "false" <=> begin = n
                    /\ res = "true" =>
                          /\ hist.yielded[k] = s
                          /\ s.bytes > 0
                          /\ s.duration_90k >= 0
                          /\ s.duration_90k = 0 => end = n
                    /\ (/\ begin < n
                        /\ \/ end > n
                           \/ s.duration_90k < 0
                           \/ s.duration_90k = 0 /\ end < n
                           \/ s.bytes <= 0)
                       => res \in IteratorErrors
        IN  Checked(IF hist.last.res = "true" THEN Len(hist.yielded)
                                              ELSE Len(hist.yielded) + 1,
                    Len(Index), hist.last.res)

\* The desired range of the last Segment::new is within the recording.
ValidRange(start, end) == 0 <= start /\ start <= end /\ end <= Recording.duration_90k

\* C22: for a recording whose index is well formed and starts with a key
\* frame, Segment::new succeeds for every range 0 <= a <= b <= duration_90k
\* with frames >= 1, also when a = b, and the first frame foreach yields is
\* a key frame; a range with a > b or b > duration_90k is rejected.
C22_ValidRangesStartAtKeyFrame ==
    /\ hist.last.op = "Segment::new" =>
          /\ ValidRange(hist.last.start, hist.last.end) =>
                 (hist.last.res = "Ok" /\ seg.frames >= 1)
          /\ (hist.last.start > hist.last.end \/ hist.last.end > Recording.duration_90k)
                 => hist.last.res = "desired range invalid"
    /\ (hist.last.op = "foreach"
        /\ ValidRange(seg.desired_range_90k[1], seg.desired_range_90k[2])) =>
          /\ hist.last.res = "Ok"
          /\ Len(hist.yielded) = seg.frames
          /\ hist.yielded # <<>>
          /\ hist.yielded[1].is_key

\* foreach went over a Segment of a zero-length range within a frame that is
\* not a key frame.
C22_Witness ==
    /\ hist.last.op = "foreach"
    /\ hist.last.res = "Ok"
    /\ seg.desired_range_90k = <<15, 15>>
    /\ Len(hist.samples) = 3
    /\ ~hist.samples[2].is_key
    /\ hist.samples[1].duration_90k = 10

\* The number of bytes of the first k of samples.
RECURSIVE EndPos(_, _)
EndPos(samples, k) == IF k = 0 THEN 0 ELSE EndPos(samples, k - 1) + samples[k].bytes

\* Frame k of the recording written for samples, as foreach hands it over.
FrameAt(samples, k) ==
    [start_90k |-> EndTime(samples, k - 1), pos |-> EndPos(samples, k - 1),
     duration_90k |-> samples[k].duration_90k, bytes |-> samples[k].bytes,
     is_key |-> samples[k].is_key]

\* Frames from..to of the recording written for samples.
FramesAt(samples, from, to) == [k \in 1..(to - from + 1) |-> FrameAt(samples, from + k - 1)]

\* The largest of a set of numbers that is not empty.
Largest(S) == CHOOSE k \in S : \A j \in S : j <= k

\* The latest key frame that starts at or before a.
LatestKey(samples, a) ==
    Largest({k \in 1..Len(samples) : samples[k].is_key /\ EndTime(samples, k - 1) <= a})

\* The last frame before the first frame after frame from that starts at or
\* after b; the final frame when there is none or b is the recording's end.
LastBefore(samples, from, b) ==
    LET later == {k \in (from + 1)..Len(samples) : EndTime(samples, k - 1) >= b}
    IN  IF b = EndTime(samples, Len(samples)) \/ later = {} THEN Len(samples)
        ELSE (CHOOSE k \in later : \A j \in later : k <= j) - 1

\* foreach has gone over a Segment whose desired range is within the recording.
WentOver(start, end) ==
    /\ hist.last.op = "foreach"
    /\ seg.desired_range_90k = <<start, end>>
    /\ ValidRange(start, end)

\* C23 as stated: a Segment of the zero-length range [a, a) with
\* 0 <= a <= duration_90k yields exactly one frame, the most recent key
\* frame that starts at or before a.
C23_ZeroRangeYieldsOneKeyFrame ==
    \A a \in RangePoints(hist.samples) :
        WentOver(a, a) =>
            /\ hist.last.res = "Ok"
            /\ hist.yielded = <<FrameAt(hist.samples, LatestKey(hist.samples, a))>>

\* C23, what holds: the Segment of [a, a) yields the most recent key frame
\* that starts at or before a and every frame after it that starts before
\* a, and through the final frame when a = duration_90k; so exactly one
\* frame only when the frame after that key frame starts at or after a.
C23_ZeroRangeYieldsFromKeyFrame ==
    \A a \in RangePoints(hist.samples) :
        WentOver(a, a) =>
            LET from == LatestKey(hist.samples, a)
                before == {k \in from..Len(hist.samples) : EndTime(hist.samples, k - 1) < a}
                to == IF a = Recording.duration_90k THEN Len(hist.samples)
                      ELSE Largest(before \cup {from})
            IN  /\ hist.last.res = "Ok"
                /\ hist.yielded = FramesAt(hist.samples, from, to)
                /\ hist.yielded[1] = FrameAt(hist.samples, from)
                /\ Len(hist.yielded) = 1 <=>
                      \/ from = Len(hist.samples)
                      \/ a < Recording.duration_90k /\ EndTime(hist.samples, from) >= a

\* The Segment of [15, 15), within the second frame of three, yielded the
\* key frame at 0 and the frame at 10.
C23_Witness ==
    /\ WentOver(15, 15)
    /\ Len(hist.samples) = 3
    /\ Len(hist.yielded) = 2
    /\ hist.yielded[1].start_90k = 0
    /\ hist.yielded[2].start_90k = 10

\* C24: for a range 0 <= a <= b <= duration_90k, foreach yields exactly
\* the frames from the latest key frame that starts at or before a up to,
\* but excluding, the first later frame that starts at or after b, and
\* through the final frame, also one of duration zero, when
\* b = duration_90k; the range [0, duration_90k) takes the fast path
\* (no begin iterator) and yields all frames, as the walk of the index
\* would.
C24_YieldsFromKeyFrameToEnd ==
    \A a, b \in RangePoints(hist.samples) :
        WentOver(a, b) =>
            LET from == LatestKey(hist.samples, a)
                Same(slow) ==
                    /\ slow.ok
                    /\ slow.frames = seg.frames
                    /\ slow.key_frames = seg.key_frames
                    /\ slow.file_end = seg.file_end
                    /\ Segment_foreach(slow, Recording.video_index).frames = hist.yielded
            IN  /\ hist.last.res = "Ok"
                /\ hist.yielded = FramesAt(hist.samples, from,
                                            LastBefore(hist.samples, from, b))
                /\ (a = 0 /\ b = Recording.duration_90k) =>
                      /\ seg.begin = None
                      /\ hist.yielded = FramesAt(hist.samples, 1, Len(hist.samples))
                      /\ Same(Segment_new_slow(Recording, a, b, seg))

\* The Segment of [10, 30), the end of a recording of two frames and a
\* trailing one of duration zero, yielded the second and the trailing frame.
C24_Witness ==
    /\ WentOver(10, 30)
    /\ Recording.duration_90k = 30
    /\ Len(hist.samples) = 3
    /\ hist.samples[3].duration_90k = 0
    /\ Len(hist.yielded) = 2
    /\ hist.yielded[2].start_90k = 30

\* The magnitude of x.
Abs(x) == IF x < 0 THEN -x ELSE x

\* adjust has been called for n frames of a ClockAdjuster made for delta.
Adjusted(delta, n) ==
    /\ hist.last.op = "adjust"
    /\ hist.last.local_time_delta = delta
    /\ hist.last.frames = n

\* C25 as stated: for a delta in [-2700, 2700] and at least 1800 frames of
\* 3000 ticks, the adjusted durations total the sum of the inputs plus
\* delta, within one tick.
C25_TotalIsSumPlusDelta ==
    (/\ hist.last.op = "adjust"
     /\ hist.last.frames >= 1800
     /\ Abs(hist.last.local_time_delta) <= 2700)
    => Abs(hist.last.total
           - (hist.last.frames * FrameTicks + hist.last.local_time_delta)) <= 1

\* C25, what holds: for 60 < |delta| <= 2700 the total after exactly 1800
\* frames of 3000 ticks (one minute) is the sum of the inputs plus delta,
\* within one tick, and after twice as many frames plus twice delta, within
\* two; for |delta| <= 60 nothing is adjusted and the total is the sum of
\* the inputs after any number of frames.
C25_OneMinuteTotalIsSumPlusDelta ==
    hist.last.op = "adjust" =>
        LET delta == hist.last.local_time_delta
        IN  /\ (hist.last.frames = 1800 /\ 60 < Abs(delta) /\ Abs(delta) <= 2700) =>
                  Abs(hist.last.total - (1800 * FrameTicks + delta)) <= 1
            /\ (hist.last.frames = 3600 /\ 60 < Abs(delta) /\ Abs(delta) <= 2700) =>
                  Abs(hist.last.total - (3600 * FrameTicks + 2 * delta)) <= 2
            /\ Abs(delta) <= 60 =>
                  /\ hist.last.val = FrameTicks
                  /\ hist.last.total = hist.last.frames * FrameTicks

\* 1800 frames were adjusted for a delta of -540 to 540 ticks less.
C25_Witness ==
    /\ Adjusted(-540, 1800)
    /\ hist.last.total = 1800 * FrameTicks - 540

\* C26: for |delta| >= 1,000,000 the total over 1800 frames of 3000 ticks
\* differs from the sum of the inputs by 2700 ticks in the direction of
\* delta, within one tick, and no adjusted duration differs from its input
\* by more than 2 ticks.
C26_RateCappedAt500ppm ==
    (hist.last.op = "adjust" /\ Abs(hist.last.local_time_delta) >= 1000000) =>
        /\ hist.last.frames = 1800 =>
              Abs(hist.last.total
                  - (1800 * FrameTicks
                     + (IF hist.last.local_time_delta < 0 THEN -2700 ELSE 2700))) <= 1
        /\ Abs(hist.last.val - FrameTicks) <= 2

\* 1800 frames were adjusted for a delta of 1,000,000 to 2700 ticks more.
C26_Witness ==
    /\ Adjusted(1000000, 1800)
    /\ hist.last.total = 1800 * FrameTicks + 2700

\* The last step of the Syncer was a Syncer::flush whose metadata flush failed.
FlushFailed == hist.last.op = "iter" /\ hist.last.res = "flush_failed"

\* C27 as stated: when the metadata flush attempted by Syncer::flush fails,
\* the head planned flush is rescheduled to now + 1 minute and nothing else
\* changes: no entry has left the heap, no sender was dropped, the database
\* was not flushed and the Syncer goes on.
C27_FailedFlushOnlyReschedules ==
    FlushFailed =>
        /\ \E f \in Peeks(hist.last.before) :
              syncer.planned_flushes
                  = (hist.last.before \ {f}) \cup {[f EXCEPT !.when = now + FlushRetry]}
        /\ Senders(hist.last.before) = Senders(syncer.planned_flushes)
        /\ hist.last.flushes = 0
        /\ syncer.state = "idle"

\* C27, what holds: Syncer::flush first discards the planned flushes at the
\* head whose recordings are already committed, dropping their senders;
\* when the flush attempted for the head f it then finds fails, f is
\* rescheduled to now + 1 minute with its senders and every other entry
\* stays as it was, the database is not flushed and the Syncer goes on.
C27_FailedFlushReschedulesHead ==
    FlushFailed =>
        \E p \in PopCommitted(hist.last.before, db) :
            /\ p.head.some
            /\ p.head.v.when <= now
            /\ syncer.planned_flushes
                  = (p.heap \ {p.head.v}) \cup {[p.head.v EXCEPT !.when = now + FlushRetry]}
            /\ \A g \in hist.last.before \ p.heap : g.recording < db.next_recording_id
            /\ Senders(p.heap) = Senders(syncer.planned_flushes)
            /\ hist.last.flushes = 0
            /\ syncer.state = "idle"

\* A flush failed for a head that a waiting SyncerChannel::flush is attached to.
C27_Witness ==
    /\ FlushFailed
    /\ Senders(syncer.planned_flushes) # {}
    /\ \E f \in syncer.planned_flushes : f.when = now + FlushRetry /\ f.senders # {}

\* The last step of the Syncer was a Syncer::save that went through.
Saved == hist.last.op = "iter" /\ hist.last.res = "save"

\* The duration of the recording whose AsyncSaveRecording was just handled.
SavedDuration ==
    LET cmd == CHOOSE c \in {hist.sent[k] : k \in DOMAIN hist.sent} : c.id = hist.last.id
    IN  cmd.duration

\* The planned flushes of the recording just saved.
SavedFlushes == {f \in syncer.planned_flushes : f.recording = hist.last.id}

\* C28 as stated: handling AsyncSaveRecording(id, dur, f) pushes exactly one
\* PlannedFlush for id, due at now + max(0, flush_if_sec - dur), hence never
\* before the time at which it was pushed.
C28_PlannedFlushNeverInPast ==
    Saved =>
        /\ Cardinality(SavedFlushes) = 1
        /\ \A f \in SavedFlushes :
              /\ f.when = now + Max(0, db.flush_if_sec * TIME_UNITS_PER_SEC - SavedDuration)
              /\ f.when >= now

\* C28, what holds: handling AsyncSaveRecording(id, dur, f) pushes exactly
\* one PlannedFlush for id, without senders, due at now + flush_if_sec - dur:
\* at or after the time of the push when dur <= flush_if_sec, and before it
\* by dur - flush_if_sec when the recording is longer than flush_if_sec.
C28_PlannedFlushAtFlushIfSecAfterStart ==
    Saved =>
        /\ Cardinality(SavedFlushes) = 1
        /\ \A f \in SavedFlushes :
              /\ f.when = now + db.flush_if_sec * TIME_UNITS_PER_SEC - SavedDuration
              /\ f.senders = {}
              /\ f.when >= now <=> SavedDuration <= db.flush_if_sec * TIME_UNITS_PER_SEC

\* A recording longer than flush_if_sec was saved: its flush is overdue at once.
C28_Witness ==
    /\ Saved
    /\ SavedDuration > db.flush_if_sec * TIME_UNITS_PER_SEC
    /\ \E f \in SavedFlushes : f.when < now

\* iter takes a Flush command off the channel in this step.
HandlesFlush ==
    /\ syncer.state = "idle"
    /\ chan.queue # <<>>
    /\ Head(chan.queue).type = "Flush"
    /\ chan'.queue = Tail(chan.queue)

\* The senders this step drops.
Dropped == hist'.released \ hist.released

\* The sender of the Flush command handled is dropped on the spot when the
\* heap is empty, and otherwise joins the senders of the head, nothing else
\* in the heap changing.
AttachesToHead ==
    HandlesFlush =>
        LET snd == Head(chan.queue).sender
        IN  IF syncer.planned_flushes = {}
            THEN snd \in Dropped /\ syncer'.planned_flushes = {}
            ELSE /\ Dropped = {}
                 /\ \E f \in Peeks(syncer.planned_flushes) :
                       syncer'.planned_flushes
                           = (syncer.planned_flushes \ {f})
                             \cup {[f EXCEPT !.senders = @ \cup {snd}]}

\* C29 as stated: a Flush command attaches its sender to the head of the
\* heap, or drops it at once when the heap is empty; a sender in the heap
\* is dropped only by a step of the Syncer that performs a metadata flush.
C29_SenderDroppedByFlush ==
    [][/\ AttachesToHead
       /\ \A snd \in Dropped :
             \/ HandlesFlush /\ syncer.planned_flushes = {}
                  /\ snd = Head(chan.queue).sender
             \/ /\ snd \in Senders(syncer.planned_flushes)
                /\ hist'.last.op = "iter"
                /\ hist'.last.res = "flushed"
                /\ db'.flushes = db.flushes + 1]_vars

\* C29, what holds: a Flush command attaches its sender to the head of the
\* heap, or drops it at once when the heap is empty; a sender in the heap is
\* dropped only by Syncer::flush, when the planned flush holding it leaves
\* the heap, and the recording of that planned flush is committed by then:
\* by the metadata flush this call performed, or by an earlier flush of
\* another party, in which case this call may perform none.
C29_SenderDroppedWhenCommitted ==
    [][/\ AttachesToHead
       /\ \A snd \in Dropped :
             \/ HandlesFlush /\ syncer.planned_flushes = {}
                  /\ snd = Head(chan.queue).sender
             \/ /\ hist'.last.op = "iter"
                /\ hist'.last.res \in {"flushed", "flush_failed", "not_due",
                                        "nothing_planned"}
                /\ \E f \in syncer.planned_flushes \ syncer'.planned_flushes :
                      /\ snd \in f.senders
                      /\ f.recording < db'.next_recording_id
                      /\ hist'.last.res = "flushed" \/ f.recording < db.next_recording_id
                /\ hist'.last.res = "flushed" <=> db'.flushes = db.flushes + 1]_vars

\* A sender that waited in the heap has been dropped by a Syncer::flush
\* that performed no metadata flush.
C29_Witness ==
    /\ hist.last.op = "iter"
    /\ hist.last.res \in {"not_due", "nothing_planned"}
    /\ Senders(hist.last.before) \ Senders(syncer.planned_flushes) # {}
    /\ Senders(hist.last.before) \subseteq hist.released \cup Senders(syncer.planned_flushes)

\* The ids the recordings of this run can have.
RunIds == 4 .. (3 + MaxRecordings)

\* Both ends of the command channel exist: a sender (a SyncerChannel or the
\* database's on_flush hook) and the Syncer's thread with its receiver.
StaysConnected == Connected /\ syncer.state \notin {"exited", "panicked"}

Planned(id) == \E f \in syncer.planned_flushes : f.recording = id

\* C30: while the command channel stays connected, flushes failing only
\* finitely often, every recording whose AsyncSaveRecording the Syncer has
\* processed is eventually committed, and every planned flush eventually
\* leaves the heap.
C30_SavedEventuallyCommitted ==
    \A id \in RunIds :
        /\ (id \in hist.marked) ~> (id < db.next_recording_id \/ ~StaysConnected)
        /\ Planned(id) ~> (~Planned(id) \/ ~StaysConnected)

\* After a failed flush the Syncer has flushed: every recording saved is
\* committed and the heap is empty.
C30_Witness ==
    /\ hist.last.op = "iter"
    /\ hist.last.res = "flushed"
    /\ budget.faults < MaxFaults
    /\ hist.marked # {}
    /\ \A id \in hist.marked : id < db.next_recording_id
    /\ syncer.planned_flushes = {}
    /\ StaysConnected

\* The places where a thread holds the database lock.
LockedPcs == {LockedAt[k] : k \in DOMAIN LockedAt} \cup {"flush_hook"}

\* A step of the thread that holds the lock.
HolderSteps ==
    \/ \E panics \in BOOLEAN : SyncerSave(panics)
    \/ \E empty \in BOOLEAN : SyncerGcRead(empty)
    \/ SyncerGcDelete(TRUE)
    \/ SyncerFlush(0, "not_due")
    \/ \E t \in Threads : HookReturns(t)
    \/ WriterUnlock
    \/ \E ok \in BOOLEAN : OtherFlushes(ok)

\* C31: the threads at the database lock do not deadlock.  The lock is held
\* exactly by a thread inside one of its critical sections; the Syncer
\* holds it neither in its receive nor while it sleeps in retry_forever;
\* whoever holds it, the hook under way included, can take its next step
\* without waiting for anything; and while a thread waits for the lock
\* some thread can step.
C31_NoDeadlockAtDatabaseLock ==
    /\ \A t \in Threads : thr.lock = t <=> thr.pc[t] \in LockedPcs
    /\ thr.lock = "syncer" => thr.pc.syncer # "recv" /\ "syncer" \notin thr.asleep
    /\ \A t \in thr.asleep : thr.lock # t
    /\ thr.lock # "none" => ENABLED HolderSteps
    /\ (\E t \in Threads : thr.pc[t] \in DOMAIN LockedAt) => ENABLED NextK

\* The Syncer is in the hook, called from its own flush under the lock,
\* while both other threads wait for the lock.
C31_Witness ==
    /\ thr.pc.syncer = "flush_hook"
    /\ thr.lock = "syncer"
    /\ thr.pc.writer \in DOMAIN LockedAt
    /\ thr.pc.other = "flush_lock"

\* do_rotation runs in this step and fails to unlink some garbage file.
RotationFailsToUnlink ==
    /\ syncer.state = "new"
    /\ budget'.faults < budget.faults
    /\ hist'.last.op \in {"start_syncer", "lower_retention"}
    /\ hist'.last.failed # {}

\* C32: when do_rotation cannot unlink a garbage file (an error other than
\* ENOENT), it has still unlinked every other garbage file, an absent one
\* counting as unlinked, it returns an error, the directory is not synced
\* and no id moves from garbage_needs_unlink to garbage_unlinked.
C32_FailedUnlinkStopsRotation ==
    [][RotationFailsToUnlink =>
         /\ hist'.last.res = FALSE
         /\ hist'.last.failed \subseteq db'.garbage_needs_unlink
         /\ \A id \in db'.garbage_needs_unlink \ hist'.last.failed :
               id \notin DOMAIN disk'.files /\ id \in disk'.unlink_pending
         /\ disk'.unlink_durable = disk.unlink_durable
         /\ disk'.unlink_pending # {}
         /\ db'.garbage_unlinked = db.garbage_unlinked
         /\ db.garbage_needs_unlink \subseteq db'.garbage_needs_unlink
         /\ hist'.gced = hist.gced
         /\ syncer'.state = "new"]_vars

\* A rotation failed on one garbage file after it had unlinked another and
\* found a third one absent.
C32_Witness ==
    /\ hist.last.op \in {"start_syncer", "lower_retention"}
    /\ hist.last.res = FALSE
    /\ hist.last.failed # {}
    /\ \E id \in db.garbage_needs_unlink \ hist.last.failed :
          \E k \in DOMAIN hist.unlinks : hist.unlinks[k] = id
    /\ \E id \in db.garbage_needs_unlink \ hist.last.failed :
          \A k \in DOMAIN hist.unlinks : hist.unlinks[k] # id

\* The live segments emitted so far for one recording, in the order sent.
SegmentsOf(id) == SelectSeq(hist.live, LAMBDA s : s.recording = id)

\* The segments start at 0, each next one starts where the one before it
\* ended, and none runs backwards.
Tiles(segs) ==
    /\ segs # <<>> => segs[1].off_90k[1] = 0
    /\ \A k \in DOMAIN segs : segs[k].off_90k[1] <= segs[k].off_90k[2]
    /\ \A k \in 1..(Len(segs) - 1) : segs[k + 1].off_90k[1] = segs[k].off_90k[2]

\* The end of the last segment, 0 when there is none.
Covered(segs) == IF segs = <<>> THEN 0 ELSE segs[Len(segs)].off_90k[2]

ClosedOk(id) == [id |-> id, how |-> "close_ok"] \in hist.ended

TiledSoFar ==
    \A id \in hist.opened :
        LET segs == SegmentsOf(id)
            r == db.uncommitted[RIdx(db, id)]
        IN  /\ Tiles(segs)
            /\ Covered(segs) <= r.duration_90k
            /\ ClosedOk(id) => segs # <<>> /\ Covered(segs) = r.duration_90k

\* A step that emits a live segment emits one, in a write that was handed
\* a key frame or in a close or drop.
EmitsAtKeyOrClose ==
    hist'.live # hist.live =>
        /\ Len(hist'.live) = Len(hist.live) + 1
        /\ \/ /\ hist'.last.op = "write"
              /\ hist'.last.res = "Ok"
              /\ w'.inner.unflushed_sample.v.is_key
           \/ hist'.last.op \in {"close", "drop"}

\* C33: the live segments write and close emit for one recording tile it:
\* the first starts at offset 0, each next one starts where the previous
\* ended, none overlap, each is emitted only when a key frame arrives or the
\* recording closes, and after a successful close they cover exactly
\* [0, duration_90k) of the recording.
C33_LiveSegmentsTileRecording == [][TiledSoFar' /\ EmitsAtKeyOrClose]_vars

\* The RecordingToInsert of an opened recording, in database d.
Rec(d, id) == d.uncommitted[RIdx(d, id)]

\* A step that opens a recording continues the run of the recording the
\* writer closed before it, or starts a run when there is none.
OpensInRun ==
    \A id \in hist'.opened \ hist.opened :
        IF w.state = "Closed"
        THEN /\ ClosedOk(id - 1)
             /\ Rec(db', id).run_offset = Rec(db, id - 1).run_offset + 1
             /\ Rec(db', id).start = Rec(db, id - 1).start + Rec(db, id - 1).duration_90k
        ELSE Rec(db', id).run_offset = 0

\* The start of a recording is moved only while its run_offset is 0, and
\* then to the earliest local time of a sample less the duration before it.
StartOnlyOfFirst ==
    \A id \in hist.opened :
        /\ Rec(db', id).run_offset = Rec(db, id).run_offset
        /\ Rec(db', id).start # Rec(db, id).start =>
              /\ Rec(db, id).run_offset = 0
              /\ Rec(db', id).video_samples = Rec(db, id).video_samples + 1
              /\ Rec(db', id).start =
                     w.inner.unflushed_sample.v.local_time - Rec(db', id).duration_90k
              /\ Rec(db', id).start < Rec(db, id).start

\* C34: of the recordings one Writer makes one after another without a
\* failure between them, the first has run_offset 0, each next one has the
\* run_offset of the one before it plus 1 and starts where that one started
\* plus its total duration; only the recording with run_offset 0 has its
\* start derived from the samples' local times.
C34_RunsAreContiguous == [][OpensInRun /\ StartOnlyOfFirst]_vars

\* Two recordings of one run, each with a sample in its index: the second
\* starts where the first ended and kept that start.
C34_Witness ==
    \E id \in hist.opened :
        /\ id - 1 \in hist.opened
        /\ Rec(db, id).run_offset = 1
        /\ Rec(db, id).video_samples = 1
        /\ Rec(db, id - 1).run_offset = 0
        /\ Rec(db, id - 1).duration_90k > 0
        /\ Rec(db, id).start = Rec(db, id - 1).start + Rec(db, id - 1).duration_90k

\* A step that appends an index record to a recording lengthens the
\* recording, unless the record is the last one of a recording that close
\* or drop marks TrailingZero, which may leave the duration as it is.
AppendLengthens ==
    \A id \in hist.opened :
        Rec(db', id).video_samples # Rec(db, id).video_samples =>
            \/ Rec(db', id).duration_90k > Rec(db, id).duration_90k
            \/ /\ hist'.last.op \in {"close", "drop"}
               /\ Rec(db', id).flags = TrailingZero
               /\ Rec(db', id).duration_90k = Rec(db, id).duration_90k

\* C35: the cumulative duration_90k of a recording strictly increases with
\* every index record appended to it (every sample's duration is > 0, also
\* after the clock adjustment), except for the final record of a
\* TrailingZero recording, whatever writes are followed by close(Some),
\* close(None) or Drop.
C35_DurationStrictlyIncreases == [][AppendLengthens]_vars

\* foreach has run on the Segment.
ForeachDone == hist.last.op = "foreach"

\* The key frames among the first n samples.
KeysIn(samples, n) == Cardinality({k \in KeysOf(samples) : k <= n})

\* foreach fails on an empty index and on one that starts with a non-key
\* frame.
FirstFrameChecked ==
    /\ hist.samples = <<>> => hist.last.res = "no frames"
    /\ hist.samples # <<>> /\ ~hist.samples[1].is_key =>
           hist.last.res = "doesn't start with key frame"

FailedAddChangesNothing ==
    /\ Len(hist'.samples) = Len(hist.samples) + 1
    /\ hist'.last.res = "Err"
    => /\ Rec(db', w.inner.id) = Rec(db, w.inner.id)
       /\ w'.inner.e = w.inner.e

\* C37: when add_sample fails because the duration would exceed the
\* maximum, neither the RecordingToInsert nor the encoder's running state
\* (previous duration, previous key and non-key bytes) is changed, so that
\* the samples added after the failure still decode to the durations and
\* sizes added.
C37_FailedAddSampleChangesNothing == [][FailedAddChangesNothing]_vars

\* The 64-bit difference a - b fits an i32 and is what the cast gives.
CastExact(a, b) ==
    /\ a.hi - b.hi \in {-1, 0, 1}
    /\ SubAsI32(a, b) = (a.hi - b.hi) * Limb + (a.lo - b.lo)

\* A write to the open recording is rejected as non-monotonic exactly when
\* its pts is at or below the held sample's, and the duration of an accepted
\* frame is the difference of the two.
WriteComparesPts ==
    hist'.writes = hist.writes + 1 /\ w.state = "Open" =>
        /\ hist'.last.res = "ErrPts"
               <=> I64Le(hist'.last.pts_90k, w.inner.unflushed_sample.v.pts_90k)
        /\ hist'.last.res # "ErrPts"
               => CastExact(hist'.last.pts_90k, w.inner.unflushed_sample.v.pts_90k)

\* close(Some(next_pts)) takes the difference to the held sample's pts.
CloseSubtractsPts ==
    /\ hist'.ended # hist.ended
    /\ hist'.last.op = "close"
    /\ hist'.last.next_pts.some
    => CastExact(hist'.last.next_pts.v, w.inner.unflushed_sample.v.pts_90k)

\* C38: for all 64-bit pts values write rejects a frame as non-monotonic if
\* and only if its pts is at or below the held sample's pts, and the raw
\* duration of every accepted frame is exactly the difference of the two:
\* the conversion of the difference to i32 never wraps, in write and in
\* close.
C38_PtsDifferenceNeverWraps == [][WriteComparesPts /\ CloseSubtractsPts]_vars

\* foreach has handed the frames of a Segment made for a range within the
\* recording to f and returned Ok.
Yielded ==
    /\ ForeachDone
    /\ hist.last.res = "Ok"
    /\ hist.yielded # <<>>
    /\ ValidRange(seg.desired_range_90k[1], seg.desired_range_90k[2])

\* C39: have_trailing_zero() is true if and only if the last frame foreach
\* yields has duration_90k = 0; in particular a Segment made on the slow
\* path that ends before the trailing frame of zero duration does not
\* report a trailing zero.
C39_TrailingZeroIsLastFrame ==
    Yielded => (seg.trailing_zero <=> hist.yielded[Len(hist.yielded)].duration_90k = 0)

\* The bytes of the frames foreach handed to f.
RECURSIVE YieldedBytes(_)
YieldedBytes(frames) ==
    IF frames = <<>> THEN 0 ELSE Head(frames).bytes + YieldedBytes(Tail(frames))

====
